---- MODULE Spec2Model ----
(***************************************************************************)
(* The JSON-RPC tool-serving shims of austral-genai-rag.                   *)
(*                                                                         *)
(* Hand-rolled HTTP servers (raw http module, POST /mcp):                  *)
(*   weather   src/src/mcp/weather-http.ts                                 *)
(*   chroma    src/src/chroma/chroma-mcp-http-server.ts                    *)
(*   es        src/unnamed/part_005 (second program, lines 213-515)        *)
(* stdio servers (handlers registered on the MCP SDK Server):              *)
(*   math      src/src/mcp/math-io.ts                                      *)
(*   es_stdio  src/unnamed/part_004                                        *)
(*                                                                         *)
(* One process is modelled at a time: Init picks the server, and the       *)
(* variables of the other transport keep their initial value.              *)
(***************************************************************************)
EXTENDS Integers, Sequences, FiniteSets, TLC

VARIABLES
    server,      \* which program this process runs
    alive,       \* FALSE once an exception escaped every catch (process died)
    backendUp,   \* whether the external search backend accepts calls
    conns,       \* HTTP: per connection slot, the request/response exchange
    firstList,   \* tool array of the first tools/list answer of this process
    received,    \* stdio: requests read from stdin, in arrival order
    calls,       \* stdio: per request read, the backend operations its handler made
    stdout,      \* stdio: responses written to stdout, in emission order
    transport,   \* SDK HTTP server: the one StreamableHTTPServerTransport
    exchanges,   \* SDK HTTP server: the POST /mcp exchanges, in arrival order
    main,        \* where main() is: at its startup probe, or listening
    probe,       \* how the startup probe of the backend ended
    health,      \* the GET /health exchanges, in arrival order
    test,        \* the HTTP test client: its position and what it printed
    es,          \* the Elasticsearch cluster: documents stored and searchable
    toolCalls,   \* the Elasticsearch tool invocations, in arrival order
    collection,  \* the ChromaDB collection: its documents and their distance to the query
    queries,     \* the chroma_query_collection invocations, in arrival order
    driver,      \* the example driver script: its position, what it printed, how it exited
    routed,      \* HTTP requests of any method and url, as the server callback routed them
    mcp,         \* per-request transports: the shared McpServer and the transport it holds
    posts,       \* per-request transports: the POST /mcp exchanges, in arrival order
    console,     \* the interactive ChromaDB console: its position and what it printed
    setup        \* the ChromaDB setup script and the store it writes to

\* the variables the handlers of the hand-rolled and stdio servers never touch
sdkVars == <<transport, exchanges>>
startVars == <<main, probe, health>>
esVars == <<es, toolCalls>>
chromaVars == <<collection, queries>>
sharedVars == <<mcp, posts>>
chromaScriptVars == <<console, setup>>
otherVars == <<driver, routed, sharedVars, chromaScriptVars>>
restVars == <<sdkVars, startVars, test, esVars, chromaVars, otherVars>>

vars == <<server, alive, backendUp, conns, firstList, received, calls, stdout, restVars>>

----------------------------------------------------------------------------
(* Bounds of the model *)

MaxConns == 1     \* connection slots of an HTTP server
MaxChunks == 2    \* 'data' events one request body arrives in
MaxMsgs == 2      \* requests read in one stdio session
MaxConcurrent == 2   \* connections open at once in the concurrent scenario
MaxExchanges == 3    \* requests posted to the SDK-based HTTP server
MaxHealth == 2       \* GET /health requests
MaxToolCalls == 3    \* Elasticsearch tool invocations in the indexing scenario
MaxQueries == 2      \* chroma_query_collection invocations in the query scenario
MaxDistance == 3     \* distances of a document to the query text: 1..MaxDistance

----------------------------------------------------------------------------
(* JavaScript / JSON values *)

Undefined == "undefined"    \* a missing member
Null == "null"              \* JSON null

HttpServers == {"weather", "chroma", "es"}
StdioServers == {"math", "es_stdio"}
Servers == HttpServers \cup StdioServers

\* the connection slots of the process
Conns == DOMAIN conns

Ids == {"id1", "id2"}

KnownMethods == {"initialize", "notifications/initialized", "tools/list", "tools/call"}
Methods == KnownMethods \cup {"resources/list"}

INTERNAL_ERROR == -32603
METHOD_NOT_FOUND == -32601

\* a TOOLS array whose second entry was pasted from the first, name included
TOOLSPastedName(s) ==
    CASE s = "weather" -> <<"get_weather", "get_weather">>
      [] s = "chroma" -> <<"chroma_query_collection", "chroma_query_collection",
                           "chroma_get_collection_info">>
      [] s = "es" -> <<"elasticsearch_search", "elasticsearch_search",
                       "elasticsearch_get_indices">>

\* const TOOLS = [...]: the advertised tool names, in array order
TOOLS(s) ==
    CASE s = "weather" -> <<"get_weather">>
      [] s = "chroma" -> <<"chroma_query_collection", "chroma_list_collections",
                           "chroma_get_collection_info">>
      [] s = "es" -> <<"elasticsearch_search", "elasticsearch_index_document",
                       "elasticsearch_get_indices">>

\* the tools array literal returned by the stdio ListTools handlers
ListToolsResult(s) ==
    CASE s = "math" -> <<"add", "multiply">>
      [] s = "es_stdio" -> <<"elasticsearch_search", "elasticsearch_index_document",
                             "elasticsearch_get_indices">>

Range(f) == {f[i] : i \in DOMAIN f}

UnknownTool == "unknown_tool"

\* shapes of params.arguments: missing, {} and an object with every
\* required parameter of the tool
ArgShapes == {Undefined, "empty", "wellformed"}

NoParams == [kind |-> Undefined, name |-> Undefined, arguments |-> Undefined]

\* params of a tools/call request: an advertised tool with each shape of
\* arguments, an unknown tool, and an object without a name
CallParams(s) ==
    [kind : {"object"},
     name : Range(IF s \in HttpServers THEN TOOLS(s) ELSE ListToolsResult(s)),
     arguments : ArgShapes]
      \cup {[kind |-> "object", name |-> UnknownTool, arguments |-> "empty"],
            [kind |-> "object", name |-> Undefined, arguments |-> Undefined]}

\* params of a posted request: as above, or missing, or null
ParamsOf(s) == CallParams(s) \cup {NoParams, [NoParams EXCEPT !.kind = Null]}

\* The JSON texts a client may post: unparseable text, the text "null",
\* requests with an id, and requests without one (a notification, and a
\* tools/list whose id was left out).
NoRequest == [json |-> "none", id |-> Undefined, method |-> Undefined, params |-> NoParams]

Requests(s) ==
    {[NoRequest EXCEPT !.json = "invalid"], [NoRequest EXCEPT !.json = Null]}
      \cup {[NoRequest EXCEPT !.json = "object", !.method = m] :
              m \in {"notifications/initialized", "tools/list"}}
      \cup {[NoRequest EXCEPT !.json = "object", !.id = i, !.method = m] :
              i \in Ids, m \in Methods \ {"tools/call"}}
      \cup {[json |-> "object", id |-> i, method |-> "tools/call", params |-> p] :
              i \in Ids, p \in ParamsOf(s)}

----------------------------------------------------------------------------
(* Response envelopes.  An envelope is the object literal the code builds:   *)
(* keys is the set of members the literal has, the other fields their        *)
(* values (a default when the member is not in the literal).                 *)

NoResult == [tools |-> <<>>, content |-> <<>>, serverInfo |-> "", isError |-> FALSE]
NoError == [code |-> 0, message |-> ""]

ResultEnvelope(id, result) ==
    [keys |-> {"jsonrpc", "id", "result"}, id |-> id, result |-> result, error |-> NoError]

\* an error envelope that also carries result: null
ErrorEnvelopeNullResult(id, code, message) ==
    [keys |-> {"jsonrpc", "id", "result", "error"}, id |-> id, result |-> NoResult,
     error |-> [code |-> code, message |-> message]]

ErrorEnvelope(id, code, message) ==
    [keys |-> {"jsonrpc", "id", "error"}, id |-> id, result |-> NoResult,
     error |-> [code |-> code, message |-> message]]

TextContent(text) == <<[type |-> "text", text |-> text]>>

\* JSON.stringify(response): a member whose value is undefined is left out
Stringify(env) ==
    IF env.id = Undefined THEN [env EXCEPT !.keys = @ \ {"id"}] ELSE env

----------------------------------------------------------------------------
(* Hand-rolled HTTP servers: handleToolsList and handleToolsCall *)

\* async function handleToolsList(id)
handleToolsList(s, id) ==
    ResultEnvelope(id, [NoResult EXCEPT !.tools = TOOLS(s)])

\* a switch that lost the case of its second advertised tool
ToolCasesMissingCase(s) ==
    CASE s = "weather" -> {}
      [] s = "chroma" -> {"chroma_query_collection", "chroma_get_collection_info"}
      [] s = "es" -> {"elasticsearch_search", "elasticsearch_get_indices"}

\* the case labels of switch (params.name) in handleToolsCall
ToolCases(s) ==
    CASE s = "weather" -> {"get_weather"}
      [] s = "chroma" -> {"chroma_query_collection", "chroma_list_collections",
                          "chroma_get_collection_info"}
      [] s = "es" -> {"elasticsearch_search", "elasticsearch_index_document",
                      "elasticsearch_get_indices"}

\* the cases that start with  const { ... } = params.arguments,
\* which throws a TypeError when arguments is missing
ReadsArguments(name) ==
    name \in {"get_weather", "chroma_query_collection", "chroma_get_collection_info",
              "elasticsearch_search", "elasticsearch_index_document"}

\* the search case issuing its search a second time
BackendOpsSearchTwice(name) ==
    CASE name = "get_weather" -> <<>>
      [] name = "chroma_query_collection" -> <<"getCollection", "query">>
      [] name = "chroma_list_collections" -> <<"listCollections">>
      [] name = "chroma_get_collection_info" -> <<"getCollection", "count">>
      [] name = "elasticsearch_search" -> <<"search", "search">>
      [] name = "elasticsearch_index_document" -> <<"index">>
      [] name = "elasticsearch_get_indices" -> <<"cat.indices">>

\* arguments with every parameter the tool's inputSchema requires
WellFormed(name, arguments) ==
    arguments = "wellformed" \/ (~ReadsArguments(name) /\ arguments = "empty")

\* the operations a case awaits on the external client, in order
BackendOps(name) ==
    CASE name = "get_weather" -> <<>>
      [] name = "chroma_query_collection" -> <<"getCollection", "query">>
      [] name = "chroma_list_collections" -> <<"listCollections">>
      [] name = "chroma_get_collection_info" -> <<"getCollection", "count">>
      [] name = "elasticsearch_search" -> <<"search">>
      [] name = "elasticsearch_index_document" -> <<"index">>
      [] name = "elasticsearch_get_indices" -> <<"cat.indices">>

\* the text payload of a successful case
ToolText(name, arguments) ==
    CASE name = "get_weather" ->
           IF arguments = "wellformed" THEN "It's always sunny in San Francisco"
           ELSE "It's always sunny in undefined"
      [] OTHER -> "JSON.stringify(rows)"

\* What a run of a handler does next: it returns an envelope, throws to its
\* caller, or is suspended at an await of a backend operation.
Return(env) == [kind |-> "return", env |-> env, message |-> ""]
Throw(message) == [kind |-> "throw", env |-> ErrorEnvelope(Undefined, 0, ""), message |-> message]
Await == [kind |-> "await", env |-> ErrorEnvelope(Undefined, 0, ""), message |-> ""]

\* the successful return of a case of handleToolsCall
ToolResult(id, params) ==
    Return(ResultEnvelope(id, [NoResult EXCEPT
               !.content = TextContent(ToolText(params.name, params.arguments))]))

\* catch (error) of handleToolsCall answering with the method-not-found code
CatchToolErrorMethodCode(id, message) ==
    Return(ErrorEnvelope(id, METHOD_NOT_FOUND, message))

\* catch (error) of handleToolsCall
CatchToolError(id, message) ==
    Return(ErrorEnvelope(id, INTERNAL_ERROR, message))

\* handleToolsCall checking the required parameters of the advertised
\* inputSchema before it runs the case
handleToolsCallValidates(s, id, params) ==
    IF params.kind # "object"
    THEN Throw("TypeError: cannot read properties of params")
    ELSE IF params.name \notin ToolCases(s)
    THEN CatchToolError(id, "Unknown tool")
    ELSE IF ~WellFormed(params.name, params.arguments)
    THEN CatchToolError(id, "Missing required parameter")
    ELSE IF BackendOps(params.name) = <<>>
    THEN ToolResult(id, params)
    ELSE Await

\* handleToolsCall from its first line to its first await (or its return)
handleToolsCall(s, id, params) ==
    IF params.kind # "object"
    THEN Throw("TypeError: cannot read properties of params")  \* params.name, before the try
    ELSE IF params.name \notin ToolCases(s)
    THEN CatchToolError(id, "Unknown tool")
    ELSE IF ReadsArguments(params.name) /\ params.arguments = Undefined
    THEN CatchToolError(id, "TypeError: cannot destructure arguments")
    ELSE IF BackendOps(params.name) = <<>>
    THEN ToolResult(id, params)
    ELSE Await

\* handleToolsCall resumed, its result mapping throwing on the resolved value
resumeToolsCallMapThrows(id, params, step, ok) ==
    IF ~ok \/ step = Len(BackendOps(params.name))
    THEN CatchToolError(id, "backend error")
    ELSE Await

\* handleToolsCall resumed when the backend operation number step settles:
\* ok is whether the client's promise resolved
resumeToolsCall(id, params, step, ok) ==
    IF ~ok
    THEN CatchToolError(id, "backend error")
    ELSE IF step < Len(BackendOps(params.name))
    THEN Await
    ELSE ToolResult(id, params)

\* whether the backend operation a handler is suspended at may resolve /
\* may reject: an unreachable backend rejects every call, a reachable one
\* resolves calls with well-formed arguments; for other arguments the
\* outcome is the backend's
MayResolve(up, name, arguments) == up
MayReject(up, name, arguments) == ~up \/ ~WellFormed(name, arguments)

----------------------------------------------------------------------------
(* Hand-rolled HTTP servers: the POST /mcp transport *)

\* a 'data' event: the next part of the text the client posts
Chunk(text, part) == [text |-> text, part |-> part]

\* JSON.parse(body): the value the text denotes; it throws on a text that is
\* not one complete JSON document
JSONParse(body) ==
    IF /\ Len(body) > 0
       /\ \A i \in DOMAIN body : body[i] = Chunk(body[1].text, i)
       /\ body[1].text.json # "invalid"
    THEN [ok |-> TRUE, value |-> body[1].text]
    ELSE [ok |-> FALSE, value |-> NoRequest]

HttpResponse(status, body) == [status |-> status, body |-> body]

\* res.writeHead(200, ...); res.end(JSON.stringify(response))
SendResponse(response) == <<HttpResponse(200, Stringify(response))>>

\* an acknowledgement that carries id: null
NotificationAckNullId ==
    <<HttpResponse(200, Stringify([keys |-> {"jsonrpc", "id"}, id |-> Null,
                                   result |-> NoResult, error |-> NoError]))>>

\* the notifications/initialized branch: res.end(JSON.stringify({ jsonrpc: "2.0" }))
NotificationAck ==
    <<HttpResponse(200, Stringify([keys |-> {"jsonrpc"}, id |-> Undefined,
                                   result |-> NoResult, error |-> NoError]))>>

\* the catch of the 'end' callback without res.writeHead(500, ...)
OuterCatchStatus200(message) ==
    <<HttpResponse(200, Stringify(ErrorEnvelope(Null, INTERNAL_ERROR, message)))>>

\* catch (error) of the 'end' callback: 500 and { jsonrpc, error, id: null }
OuterCatch(message) ==
    <<HttpResponse(500, Stringify(ErrorEnvelope(Null, INTERNAL_ERROR, message)))>>

\* the initialize branch
InitializeResponse(s, id) ==
    ResultEnvelope(id, [NoResult EXCEPT !.serverInfo =
        CASE s = "weather" -> "weather-mcp-server"
          [] s = "chroma" -> "chromadb-mcp-server"
          [] s = "es" -> "elasticsearch-mcp-server"])

\* the else branch answering with the internal-error code
MethodNotFoundInternalCode(id) == ErrorEnvelope(id, INTERNAL_ERROR, "Method not found")

\* the else branch: unrecognised method
MethodNotFound(id) == ErrorEnvelope(id, METHOD_NOT_FOUND, "Method not found")

\* What a run of the 'end' callback leaves behind: the responses it wrote,
\* the handlers it invoked, whether it is suspended inside handleToolsCall,
\* and whether an exception left the callback uncaught.
Ran(writes, handlers, suspended) ==
    [writes |-> writes, handlers |-> handlers, suspended |-> suspended, uncaught |-> FALSE]

\* the 'end' callback without its catch: what handleToolsCall throws leaves
\* the async callback as an unhandled rejection
AfterToolsCallNoCatch(outcome) ==
    CASE outcome.kind = "return" -> Ran(SendResponse(outcome.env), <<"handleToolsCall">>, FALSE)
      [] outcome.kind = "throw" ->
           [Ran(<<>>, <<"handleToolsCall">>, FALSE) EXCEPT !.uncaught = TRUE]
      [] outcome.kind = "await" -> Ran(<<>>, <<"handleToolsCall">>, TRUE)

\* try { ... response = await handleToolsCall(...) ... res.end(...) } catch { ... }
\* applied to what handleToolsCall did
AfterToolsCall(outcome) ==
    CASE outcome.kind = "return" -> Ran(SendResponse(outcome.env), <<"handleToolsCall">>, FALSE)
      [] outcome.kind = "throw" -> Ran(OuterCatch(outcome.message), <<"handleToolsCall">>, FALSE)
      [] outcome.kind = "await" -> Ran(<<>>, <<"handleToolsCall">>, TRUE)

\* the method routing of the 'end' callback, after JSON.parse succeeded
Route(s, request) ==
    IF request.json # "object"
    THEN Ran(OuterCatch("TypeError: cannot read properties of null"), <<>>, FALSE)
    ELSE CASE request.method = "tools/list" ->
                Ran(SendResponse(handleToolsList(s, request.id)), <<"handleToolsList">>, FALSE)
           [] request.method = "tools/call" ->
                AfterToolsCall(handleToolsCall(s, request.id, request.params))
           [] request.method = "initialize" ->
                Ran(SendResponse(InitializeResponse(s, request.id)), <<>>, FALSE)
           [] request.method = "notifications/initialized" ->
                Ran(NotificationAck, <<>>, FALSE)
           [] OTHER ->
                Ran(SendResponse(MethodNotFound(request.id)), <<>>, FALSE)

\* req.on('end', async () => { ... }) up to its first backend await
EndCallback(s, body) ==
    LET parsed == JSONParse(body)
    IN  IF parsed.ok THEN Route(s, parsed.value)
        ELSE Ran(OuterCatch("SyntaxError"), <<>>, FALSE)

----------------------------------------------------------------------------
(* stdio servers: the handlers registered with server.setRequestHandler *)

\* the ids the stdio client gives its requests: 1, 2, 3, ... in sending order
ClientIds == <<"id1", "id2", "id3", "id4", "id5", "id6">>

\* the requests a client writes to the server's stdin as its n-th line
StdioRequests(s, n) ==
    {[NoRequest EXCEPT !.json = "object", !.id = ClientIds[n], !.method = "tools/list"]}
      \cup {[json |-> "object", id |-> ClientIds[n], method |-> "tools/call", params |-> p] :
              p \in {q \in CallParams(s) : q.name # Undefined}}

\* the case labels of switch (request.params.name) in the CallTool handler
StdioToolCases(s) ==
    CASE s = "math" -> {"add", "multiply"}
      [] s = "es_stdio" -> {"elasticsearch_search", "elasticsearch_index_document",
                            "elasticsearch_get_indices"}

\* the cases that destructure request.params.arguments
StdioReadsArguments(name) ==
    name \in {"add", "multiply", "elasticsearch_search", "elasticsearch_index_document"}

\* the add case awaiting a remote operation as well
StdioBackendOpsAddAwaits(name) ==
    CASE name = "add" -> <<"search">>
      [] name = "multiply" -> <<>>
      [] name = "elasticsearch_search" -> <<"search">>
      [] name = "elasticsearch_index_document" -> <<"index">>
      [] name = "elasticsearch_get_indices" -> <<"cat.indices">>

\* the operations a case awaits on esClient
StdioBackendOps(name) ==
    CASE name \in {"add", "multiply"} -> <<>>
      [] name = "elasticsearch_search" -> <<"search">>
      [] name = "elasticsearch_index_document" -> <<"index">>
      [] name = "elasticsearch_get_indices" -> <<"cat.indices">>

\* text: String(a + b), String(a * b) or JSON.stringify(...)
StdioToolText(name, arguments) ==
    CASE name \in {"add", "multiply"} ->
           IF arguments = "wellformed" THEN "String(number)" ELSE "NaN"
      [] OTHER -> "JSON.stringify(rows)"

\* what a run of a registered handler does next: it returns a result, throws,
\* or is suspended at an await of a backend operation
Returns(result) == [kind |-> "return", result |-> result, message |-> ""]
Throws(message) == [kind |-> "throw", result |-> NoResult, message |-> message]
Awaits == [kind |-> "await", result |-> NoResult, message |-> ""]

\* server.setRequestHandler(ListToolsRequestSchema, async () => ...)
ListToolsHandler(s) == Returns([NoResult EXCEPT !.tools = ListToolsResult(s)])

\* the return statement of a case of the CallTool handler
CallToolResult(params) ==
    Returns([NoResult EXCEPT
               !.content = TextContent(StdioToolText(params.name, params.arguments))])

\* server.setRequestHandler(CallToolRequestSchema, async (request) => ...)
\* up to its first await: there is no try/catch in the handler
CallToolHandler(s, params) ==
    IF params.name \notin StdioToolCases(s)
    THEN Throws("Unknown tool")
    ELSE IF StdioReadsArguments(params.name) /\ params.arguments = Undefined
    THEN Throws("TypeError: cannot destructure arguments")
    ELSE IF StdioBackendOps(params.name) = <<>>
    THEN CallToolResult(params)
    ELSE Awaits

\* the CallTool handler resumed when esClient's promise settles
resumeCallTool(params, ok) ==
    IF ok THEN CallToolResult(params) ELSE Throws("backend error")

\* The SDK Server the handlers are registered on answers a request with the
\* handler's result, or with an error envelope when the handler's promise
\* rejects.
SdkRespond(id, outcome) ==
    IF outcome.kind = "return"
    THEN ResultEnvelope(id, outcome.result)
    ELSE ErrorEnvelope(id, INTERNAL_ERROR, outcome.message)

\* the handler the SDK Server invokes for a request read from stdin
SdkDispatch(s, request) ==
    IF request.method = "tools/list"
    THEN ListToolsHandler(s)
    ELSE CallToolHandler(s, request.params)

\* a line written to stdout: the response to the n-th request
StdoutLine(n, env) == [n |-> n, body |-> Stringify(env)]

\* overlap records whether another exchange was in flight during this one
\* new StreamableHTTPServerTransport({ sessionIdGenerator, enableJsonResponse })
NewTransport == [initialized |-> FALSE, sessionId |-> Undefined]

\* the SDK-based HTTP server is not the program that runs
SdkUnused == transport = NewTransport /\ exchanges = <<>>

\* main() has finished and no GET /health was received
Started == main = "listening" /\ probe = "none" /\ health = <<>>

\* the test client does not run
NotRun == [pc |-> 0, awaiting |-> FALSE, printed |-> <<>>]

\* an empty cluster: no document stored, none searchable, no id generated
EsEmpty == [docs |-> {}, visible |-> {}, auto |-> 0]

\* no Elasticsearch tool was invoked
EsUnused == es = EsEmpty /\ toolCalls = <<>>

\* chroma_query_collection was never invoked, on an empty collection
ChromaUnused == collection = {} /\ queries = <<>>

\* no driver script runs
NoDriver ==
    [script |-> "none", at |-> "exited", step |-> 0, ops |-> <<>>, client |-> "null",
     closeCalls |-> 0, caught |-> FALSE, error |-> "none", stderr |-> <<>>,
     exited |-> FALSE, status |-> 0, unhandled |-> FALSE, answer |-> "none",
     hits |-> 0, toolRuns |-> <<>>]

\* no client-side script runs next to the server
ScriptsUnused == driver = NoDriver

\* no request was routed
RouteUnused == routed = <<>>

\* the shared McpServer before any transport was connected to it
NewMcp == [build |-> "rebinds", transport |-> 0]

\* no request was posted to the server with per-request transports
SharedUnused == mcp = NewMcp /\ posts = <<>>

\* the console was not started
NoConsole ==
    [at |-> "off", lines |-> <<>>, prompts |-> 0, pending |-> <<>>,
     errors |-> 0, status |-> 0]
ConsoleUnused == console = NoConsole

\* the setup script was not started
NoSetup ==
    [at |-> "off", script |-> "none", step |-> 0, ops |-> <<>>,
     store |-> [exists |-> FALSE, ids |-> {}], before |-> [exists |-> FALSE, ids |-> {}],
     exited |-> FALSE, status |-> 0, history |-> <<>>]
SetupUnused == setup = NoSetup

\* none of the scenarios of the later sections runs
OthersUnused ==
    ScriptsUnused /\ RouteUnused /\ SharedUnused /\ ConsoleUnused /\ SetupUnused

IdleConn ==
    [phase |-> "idle", req |-> NoRequest, body |-> <<>>,
     res |-> <<>>, handlers |-> <<>>, backendCalls |-> <<>>, overlap |-> FALSE]

NoList == [set |-> FALSE, tools |-> <<>>]

\* the tool array of the first tools/list answer, once one was written
NoteList(first, isList, writes) ==
    IF isList /\ ~first.set /\ writes # <<>>
    THEN [set |-> TRUE, tools |-> writes[1].body.result.tools]
    ELSE first

\* a call of an operation of the external client, and how its promise settled
BackendCall(op) == [op |-> op, settled |-> "pending"]
Settle(log, ok) ==
    [log EXCEPT ![Len(log)].settled = IF ok THEN "resolved" ELSE "rejected"]

\* the backend operation a suspended tools/call awaits next
NextOp(conn) == BackendOps(conn.req.params.name)[Len(conn.backendCalls) + 1]

Init ==
    /\ server \in Servers
    /\ alive = TRUE
    /\ backendUp \in BOOLEAN
    /\ conns = [c \in 1..MaxConns |-> IdleConn]
    /\ firstList = NoList
    /\ received = <<>>
    /\ calls = <<>>
    /\ stdout = <<>>
    /\ SdkUnused
    /\ test = NotRun
    /\ EsUnused
    /\ ChromaUnused
    /\ OthersUnused
    /\ Started

\* a slot is free when no exchange is in flight on it
Free(c) == conns[c].phase \in {"idle", "done"}

\* a client opens a connection and posts one of reqs to /mcp: the server
\* runs the createServer callback for it; the connection takes the lowest
\* free slot
Post(c, reqs) ==
    /\ alive /\ server \in HttpServers /\ main = "listening"
    /\ Free(c) /\ \A d \in Conns : d < c => ~Free(d)
    /\ \E req \in reqs :
         conns' = [d \in Conns |->
                    IF d = c
                    THEN [IdleConn EXCEPT !.phase = "body", !.req = req,
                                          !.overlap = \E e \in Conns \ {c} : ~Free(e)]
                    ELSE IF Free(d) THEN conns[d]
                    ELSE [conns[d] EXCEPT !.overlap = TRUE]]

NewRequest(c) ==
    /\ Post(c, Requests(server))
    /\ UNCHANGED <<server, alive, backendUp, firstList, received, calls, stdout, restVars>>

\* a body buffer declared once for the whole server instead of per request
BodyOwnerShared(c) == 1

\* let body = '' inside the POST /mcp branch: the buffer the 'data' and
\* 'end' callbacks of connection c close over is that connection's own
BodyOwner(c) == c

\* req.on('data', chunk => { body += chunk.toString(); })
OnData(c) ==
    /\ alive /\ conns[c].phase = "body"
    /\ Len(conns[BodyOwner(c)].body) < MaxChunks
    /\ conns' = [conns EXCEPT ![BodyOwner(c)].body =
                                Append(@, Chunk(conns[c].req, Len(@) + 1))]
    /\ UNCHANGED <<server, alive, backendUp, firstList, received, calls, stdout, restVars>>

\* the state of a connection after a run of the callback (which consumed
\* the body)
AfterRun(conn, run) ==
    [conn EXCEPT !.phase = IF run.suspended THEN "await" ELSE "done",
                 !.body = <<>>,
                 !.res = @ \o run.writes,
                 !.handlers = @ \o run.handlers,
                 !.backendCalls = IF run.suspended THEN Append(@, BackendCall(NextOp(conn)))
                                  ELSE @]

\* req.on('end', ...): the client sent the last part of its text
OnEnd(c) ==
    /\ alive /\ conns[c].phase = "body"
    /\ Len(conns[BodyOwner(c)].body) >= 1
    /\ LET run == EndCallback(server, conns[BodyOwner(c)].body)
       IN  /\ conns' = [conns EXCEPT ![c] = AfterRun(@, run)]
           /\ alive' = ~run.uncaught
           /\ firstList' = NoteList(firstList, run.handlers = <<"handleToolsList">>, run.writes)
    /\ UNCHANGED <<server, backendUp, received, calls, stdout, restVars>>

\* the backend operation a tools/call awaits resolves (ok) or rejects
OnBackendSettled(c) ==
    /\ alive /\ conns[c].phase = "await"
    /\ \E ok \in BOOLEAN :
         /\ IF ok THEN MayResolve(backendUp, conns[c].req.params.name, conns[c].req.params.arguments)
                  ELSE MayReject(backendUp, conns[c].req.params.name, conns[c].req.params.arguments)
         /\ LET outcome == resumeToolsCall(conns[c].req.id, conns[c].req.params,
                                           Len(conns[c].backendCalls), ok)
                run == [AfterToolsCall(outcome) EXCEPT !.handlers = <<>>]
            IN  /\ conns' = [conns EXCEPT ![c] =
                               AfterRun([@ EXCEPT !.backendCalls = Settle(@, ok)], run)]
                /\ alive' = ~run.uncaught
    /\ UNCHANGED <<server, backendUp, firstList, received, calls, stdout, restVars>>

\* the external backend becomes reachable or unreachable
BackendChange ==
    /\ alive
    /\ backendUp' = ~backendUp
    /\ UNCHANGED <<server, alive, conns, firstList, received, calls, stdout, restVars>>

\* the handler of the n-th request is suspended at a backend operation
Pending(n) == calls[n] # <<>> /\ calls[n][Len(calls[n])].settled = "pending"

\* the server reads the next request from stdin and invokes its handler; the
\* SDK does not wait for the handler's promise before it reads the next line
StdioRead ==
    /\ alive /\ server \in StdioServers /\ main = "listening"
    /\ Len(received) < MaxMsgs
    /\ \E request \in StdioRequests(server, Len(received) + 1) :
         LET n == Len(received) + 1
             outcome == SdkDispatch(server, request)
         IN  /\ received' = Append(received, request)
             /\ IF outcome.kind = "await"
                THEN /\ calls' = Append(calls,
                                    <<BackendCall(StdioBackendOps(request.params.name)[1])>>)
                     /\ UNCHANGED <<stdout, firstList>>
                ELSE /\ calls' = Append(calls, <<>>)
                     /\ stdout' = Append(stdout, StdoutLine(n, SdkRespond(request.id, outcome)))
                     /\ firstList' = NoteList(firstList, request.method = "tools/list",
                                              <<StdoutLine(n, SdkRespond(request.id, outcome))>>)
    /\ UNCHANGED <<server, alive, backendUp, conns, restVars>>

\* the backend operation the handler of request n awaits resolves or rejects
StdioBackendSettled(n) ==
    /\ alive /\ n \in DOMAIN calls /\ Pending(n)
    /\ \E ok \in BOOLEAN :
         /\ IF ok THEN MayResolve(backendUp, received[n].params.name, received[n].params.arguments)
                  ELSE MayReject(backendUp, received[n].params.name, received[n].params.arguments)
         /\ stdout' = Append(stdout, StdoutLine(n,
                          SdkRespond(received[n].id, resumeCallTool(received[n].params, ok))))
         /\ calls' = [calls EXCEPT ![n] = Settle(@, ok)]
    /\ UNCHANGED <<server, alive, backendUp, conns, firstList, received, restVars>>

Next ==
    \/ \E c \in Conns : NewRequest(c)
    \/ \E c \in Conns : OnData(c)
    \/ \E c \in Conns : OnEnd(c)
    \/ \E c \in Conns : OnBackendSettled(c)
    \/ StdioRead
    \/ \E n \in 1..MaxMsgs : StdioBackendSettled(n)
    \/ BackendChange

Spec == Init /\ [][Next]_vars

----------------------------------------------------------------------------
(* Concurrent connections to one hand-rolled HTTP server *)

\* what the client of connection c posts: unparseable text, tools/list, and
\* tools/call of each advertised tool and of an unknown tool; clients whose
\* connections are open at once use different ids
ConcurrentRequests(s, c) ==
    {[NoRequest EXCEPT !.json = "invalid"],
     [NoRequest EXCEPT !.json = "object", !.id = ClientIds[c], !.method = "tools/list"]}
      \cup {[json |-> "object", id |-> ClientIds[c], method |-> "tools/call",
              params |-> [kind |-> "object", name |-> n,
                          arguments |-> IF n = UnknownTool THEN "empty" ELSE "wellformed"]] :
              n \in Range(TOOLS(s)) \cup {UnknownTool}}

InitConcurrent ==
    /\ server \in HttpServers
    /\ alive = TRUE
    /\ backendUp \in BOOLEAN
    /\ conns = [c \in 1..MaxConcurrent |-> IdleConn]
    /\ firstList = NoList
    /\ received = <<>>
    /\ calls = <<>>
    /\ stdout = <<>>
    /\ SdkUnused
    /\ test = NotRun
    /\ EsUnused
    /\ ChromaUnused
    /\ OthersUnused
    /\ Started

ConcurrentRequest(c) ==
    /\ Post(c, ConcurrentRequests(server, c))
    /\ UNCHANGED <<server, alive, backendUp, firstList, received, calls, stdout, restVars>>

NextConcurrent ==
    \/ \E c \in Conns : ConcurrentRequest(c)
    \/ \E c \in Conns : OnData(c)
    \/ \E c \in Conns : OnEnd(c)
    \/ \E c \in Conns : OnBackendSettled(c)
    \/ BackendChange

SpecConcurrent == InitConcurrent /\ [][NextConcurrent]_vars

----------------------------------------------------------------------------
(* The SDK-based Elasticsearch HTTP server of                               *)
(* src/src/rag/elasticsearch-mcp-http-server.ts: an McpServer connected     *)
(* once, at module level, to one StreamableHTTPServerTransport that was     *)
(* given a sessionIdGenerator.  The transport and McpServer are the SDK's;  *)
(* they are modelled by what they do with that configuration.               *)

SdkHttpServer == "es_sdk"

\* crypto.randomUUID(): the session id the transport generates
SessionId == "session1"

\* the Mcp-Session-Id header of a request: missing, the id the server
\* issued, or another one
SessionHeaders == {Undefined, SessionId, "stale"}

\* the tools registered with mcp.tool(...)
RegisteredTools ==
    <<"elasticsearch_search", "elasticsearch_index_document", "elasticsearch_get_indices">>

\* the requests posted to the SDK-based server as its n-th request
SdkRequests(n) ==
    {[NoRequest EXCEPT !.json = "object", !.id = ClientIds[n], !.method = m] :
        m \in {"initialize", "tools/list"}}
      \cup {[NoRequest EXCEPT !.json = "object", !.method = "notifications/initialized"]}
      \cup {[json |-> "object", id |-> ClientIds[n], method |-> "tools/call",
              params |-> [kind |-> "object", name |-> t, arguments |-> "wellformed"]] :
              t \in Range(RegisteredTools)}

NoBody == [keys |-> {}, id |-> Undefined, result |-> NoResult, error |-> NoError]

\* the transport refuses a request: res.writeHead(status).end({ jsonrpc, error, id: null })
TransportError(status, code, message) ==
    HttpResponse(status, Stringify(ErrorEnvelope(Null, code, message)))

\* validateSession of the transport, for a request that is not initialize:
\* the refusal, or NoBody with status 0 when the request may proceed
validateSession(t, session) ==
    IF ~t.initialized
    THEN TransportError(400, -32000, "Bad Request: Server not initialized")
    ELSE IF session = Undefined
    THEN TransportError(400, -32000, "Bad Request: Mcp-Session-Id header is required")
    ELSE IF session # t.sessionId
    THEN TransportError(404, -32001, "Session not found")
    ELSE HttpResponse(0, NoBody)

\* What transport.handleRequest(req, res, req.body) does with a POST: the
\* state of the transport afterwards, the response written (status 0: none
\* yet) and whether a tool handler was started and awaits esClient.
handleRequest(t, request, session) ==
    IF request.method = "initialize"
    THEN IF t.initialized /\ t.sessionId # Undefined
         THEN [transport |-> t, suspended |-> FALSE,
               res |-> TransportError(400, -32600, "Invalid Request: Server already initialized")]
         ELSE [transport |-> [initialized |-> TRUE, sessionId |-> SessionId],
               suspended |-> FALSE,
               res |-> HttpResponse(200, Stringify(ResultEnvelope(request.id,
                          [NoResult EXCEPT !.serverInfo = "ElasticsearchToolServer"])))]
    ELSE LET refusal == validateSession(t, session)
         IN  IF refusal.status # 0
             THEN [transport |-> t, suspended |-> FALSE, res |-> refusal]
             ELSE CASE request.method = "notifications/initialized" ->
                         [transport |-> t, suspended |-> FALSE, res |-> HttpResponse(202, NoBody)]
                    [] request.method = "tools/list" ->
                         [transport |-> t, suspended |-> FALSE,
                          res |-> HttpResponse(200, Stringify(ResultEnvelope(request.id,
                                     [NoResult EXCEPT !.tools = RegisteredTools])))]
                    [] request.method = "tools/call" ->
                         [transport |-> t, suspended |-> TRUE, res |-> HttpResponse(0, NoBody)]

\* the response to a tools/call once the registered callback settled:
\* McpServer answers a rejected callback with a result flagged isError
ToolCallResponse(request, ok) ==
    HttpResponse(200, Stringify(ResultEnvelope(request.id,
        IF ok THEN [NoResult EXCEPT !.content = TextContent("JSON.stringify(rows)")]
        ELSE [NoResult EXCEPT !.content = TextContent("error.message"), !.isError = TRUE])))

\* one exchange: the request, its session header, whether the transport had
\* seen initialize when the request arrived, the backend outcome and the response
Exchange(request, session, initialized, res) ==
    [req |-> request, session |-> session, initialized |-> initialized,
     settled |-> "none", res |-> res]

InitSdk ==
    /\ server = SdkHttpServer
    /\ alive = TRUE
    /\ backendUp \in BOOLEAN
    /\ conns = [c \in 1..MaxConns |-> IdleConn]
    /\ firstList = NoList
    /\ received = <<>>
    /\ calls = <<>>
    /\ stdout = <<>>
    /\ transport = NewTransport
    /\ exchanges = <<>>
    /\ Started
    /\ test = NotRun
    /\ EsUnused
    /\ ChromaUnused
    /\ OthersUnused

\* app.post('/mcp', async (req, res) => { await transport.handleRequest(...) })
SdkPost ==
    /\ server = SdkHttpServer /\ main = "listening"
    /\ Len(exchanges) < MaxExchanges
    /\ \E request \in SdkRequests(Len(exchanges) + 1), session \in SessionHeaders :
         LET run == handleRequest(transport, request, session)
         IN  /\ transport' = run.transport
             /\ exchanges' = Append(exchanges,
                   [Exchange(request, session, transport.initialized, run.res)
                      EXCEPT !.settled = IF run.suspended THEN "pending" ELSE "none"])
    /\ UNCHANGED <<server, alive, backendUp, conns, firstList, received, calls, stdout,
                   startVars, test, esVars, chromaVars, otherVars>>

\* the esClient operation a registered callback awaits resolves or rejects
SdkBackendSettled(i) ==
    /\ i \in DOMAIN exchanges /\ exchanges[i].settled = "pending"
    /\ \E ok \in BOOLEAN :
         /\ IF ok THEN backendUp ELSE ~backendUp
         /\ exchanges' = [exchanges EXCEPT
                            ![i].settled = IF ok THEN "resolved" ELSE "rejected",
                            ![i].res = ToolCallResponse(exchanges[i].req, ok)]
    /\ UNCHANGED <<server, alive, backendUp, conns, firstList, received, calls, stdout,
                   transport, startVars, test, esVars, chromaVars, otherVars>>

NextSdk ==
    \/ SdkPost
    \/ \E i \in 1..MaxExchanges : SdkBackendSettled(i)
    \/ BackendChange

SpecSdk == InitSdk /\ [][NextSdk]_vars

----------------------------------------------------------------------------
(* Startup (main) and GET /health *)

\* the programs whose main() probes the backend before it listens:
\* chromaClient.version() or esClient.info()
ProbesBackend(s) == s \in {"chroma", "es", "es_stdio", SdkHttpServer}

\* the programs that answer GET /health
HealthServers == HttpServers \cup {SdkHttpServer}

\* main() without the try/catch around its probe: a rejected probe leaves
\* main() as an unhandled rejection and the server never listens
AfterProbeNoCatch(ok) ==
    [main |-> IF ok THEN "listening" ELSE "probe", alive |-> ok]

\* main(): try { await probe; log } catch (error) { log }, and then
\* httpServer.listen(PORT) / app.listen(PORT) / await server.connect(transport)
AfterProbe(ok) == [main |-> "listening", alive |-> TRUE]

\* the 503 answer written with status 200
HealthDisconnectedStatus200(s) ==
    HttpResponse(200, [keys |-> {"status", "backend"}, status |-> "error",
                       mcp_server |-> Undefined, backend |-> "disconnected"])

\* the catch of the /health branch: 503 { status: "error", <backend>: "disconnected" }
HealthDisconnected(s) ==
    HttpResponse(503, [keys |-> {"status", "backend"}, status |-> "error",
                       mcp_server |-> Undefined, backend |-> "disconnected"])

\* the 200 answer of the /health branch: { status: "ok", mcp_server: "running", ... }
HealthOk(s) ==
    HttpResponse(200, [keys |-> {"status", "mcp_server", "backend"}, status |-> "ok",
                       mcp_server |-> "running",
                       backend |-> IF s = "weather" THEN "weather" ELSE "connected"])

\* a GET /health exchange: awaiting the backend probe or answered
HealthExchange(awaiting, res) == [awaiting |-> awaiting, settled |-> "none", res |-> res]

\* the requests posted while the startup scenario runs: tools/list and a
\* well-formed tools/call of each advertised tool
StartupRequests(s, c) ==
    {r \in ConcurrentRequests(s, c) :
       r.json = "object" /\ (r.method = "tools/call" => r.params.name # UnknownTool)}

InitStartup ==
    /\ server \in Servers \cup {SdkHttpServer}
    /\ alive = TRUE
    /\ backendUp \in BOOLEAN
    /\ conns = [c \in {1} |-> IdleConn]
    /\ firstList = NoList
    /\ received = <<>>
    /\ calls = <<>>
    /\ stdout = <<>>
    /\ SdkUnused
    /\ test = NotRun
    /\ EsUnused
    /\ ChromaUnused
    /\ OthersUnused
    /\ main = "probe"
    /\ probe = "none"
    /\ health = <<>>

\* main() runs to the point where the server accepts requests
Main ==
    /\ alive /\ main = "probe"
    /\ IF ProbesBackend(server)
       THEN \E ok \in BOOLEAN :
              /\ ok <=> backendUp
              /\ probe' = IF ok THEN "ok" ELSE "failed"
              /\ main' = AfterProbe(ok).main
              /\ alive' = AfterProbe(ok).alive
       ELSE main' = "listening" /\ UNCHANGED <<probe, alive>>
    /\ UNCHANGED <<server, backendUp, conns, firstList, received, calls, stdout,
                   sdkVars, health, test, esVars, chromaVars, otherVars>>

StartupRequest(c) ==
    /\ Post(c, StartupRequests(server, c))
    /\ UNCHANGED <<server, alive, backendUp, firstList, received, calls, stdout, restVars>>

\* GET /health arrives: the weather server answers at once, the others
\* await chromaClient.version() / esClient.cluster.health()
HealthGet ==
    /\ alive /\ main = "listening" /\ server \in HealthServers
    /\ Len(health) < MaxHealth
    /\ health' = Append(health,
                    IF ProbesBackend(server) THEN HealthExchange(TRUE, <<>>)
                    ELSE HealthExchange(FALSE, <<HealthOk(server)>>))
    /\ UNCHANGED <<server, alive, backendUp, conns, firstList, received, calls, stdout,
                   sdkVars, main, probe, test, esVars, chromaVars, otherVars>>

\* the probe of a GET /health resolves or rejects
HealthSettled(i) ==
    /\ alive /\ i \in DOMAIN health /\ health[i].awaiting
    /\ \E ok \in BOOLEAN :
         /\ ok <=> backendUp
         /\ health' = [health EXCEPT ![i] =
               [awaiting |-> FALSE, settled |-> IF ok THEN "resolved" ELSE "rejected",
                res |-> <<IF ok THEN HealthOk(server) ELSE HealthDisconnected(server)>>]]
    /\ UNCHANGED <<server, alive, backendUp, conns, firstList, received, calls, stdout,
                   sdkVars, main, probe, test, esVars, chromaVars, otherVars>>

NextStartup ==
    \/ Main
    \/ \E c \in Conns : StartupRequest(c)
    \/ \E c \in Conns : OnData(c)
    \/ \E c \in Conns : OnEnd(c)
    \/ \E c \in Conns : OnBackendSettled(c)
    \/ HealthGet
    \/ \E i \in 1..MaxHealth : HealthSettled(i)
    \/ StdioRead
    \/ \E n \in 1..MaxMsgs : StdioBackendSettled(n)
    \/ BackendChange

SpecStartup == InitStartup /\ [][NextStartup]_vars

----------------------------------------------------------------------------
(* The HTTP test client, testMcpHttpServer of case3-agent-mcp-example.ts,  *)
(* run against the hand-rolled server that listens at SERVER_URL           *)

\* listToolsRequest, callWeatherRequest, callWeatherRequest2, callUnknownRequest
TestRequest(k) ==
    CASE k = 1 -> [NoRequest EXCEPT !.json = "object", !.id = ClientIds[1],
                                    !.method = "tools/list"]
      [] k \in {2, 3} ->
           [json |-> "object", id |-> ClientIds[k], method |-> "tools/call",
            params |-> [kind |-> "object", name |-> "get_weather", arguments |-> "wellformed"]]
      [] k = 4 ->
           [json |-> "object", id |-> ClientIds[4], method |-> "tools/call",
            params |-> [kind |-> "object", name |-> UnknownTool, arguments |-> "empty"]]

\* response.ok of fetch: the status is in the range 200-299
ResponseOk(res) == res.status >= 200 /\ res.status <= 299

\* sendRequest: throws when !response.ok, returns the parsed body otherwise
sendRequest(res) ==
    IF ~ResponseOk(res)
    THEN [threw |-> TRUE, data |-> NoBody]
    ELSE [threw |-> FALSE, data |-> res.body]

\* what the test prints and where it goes after the answer to request k
AfterTest(k, outcome) ==
    IF k \in {1, 2, 3}
    THEN IF outcome.threw
         THEN [pc |-> 6, printed |-> <<"Test failed">>]    \* process.exit(1)
         ELSE [pc |-> k + 1,
               printed |-> IF "result" \in outcome.data.keys
                           THEN <<IF k = 1 THEN "Found tools" ELSE "Weather result">>
                           ELSE <<>>]
    ELSE [pc |-> 5,
          printed |-> <<IF outcome.threw THEN "Error handled correctly"
                        ELSE "Should have thrown an error",
                        "All tests completed">>]

InitTest ==
    /\ server \in HttpServers
    /\ alive = TRUE
    /\ backendUp \in BOOLEAN
    /\ conns = [c \in {1} |-> IdleConn]
    /\ firstList = NoList
    /\ received = <<>>
    /\ calls = <<>>
    /\ stdout = <<>>
    /\ SdkUnused
    /\ Started
    /\ test = [NotRun EXCEPT !.pc = 1]
    /\ EsUnused
    /\ ChromaUnused
    /\ OthersUnused

\* await fetch(SERVER_URL, { method: 'POST', body: JSON.stringify(request) })
TestSend ==
    /\ test.pc \in 1..4 /\ ~test.awaiting
    /\ Post(1, {TestRequest(test.pc)})
    /\ test' = [test EXCEPT !.awaiting = TRUE]
    /\ UNCHANGED <<server, alive, backendUp, firstList, received, calls, stdout,
                   sdkVars, startVars, esVars, chromaVars, otherVars>>

\* the answer arrives: sendRequest returns or throws and the test goes on
TestReceive ==
    /\ test.awaiting /\ conns[1].phase = "done"
    /\ LET next == AfterTest(test.pc, sendRequest(conns[1].res[1]))
       IN  test' = [pc |-> next.pc, awaiting |-> FALSE,
                    printed |-> test.printed \o next.printed]
    /\ UNCHANGED <<server, alive, backendUp, conns, firstList, received, calls, stdout,
                   sdkVars, startVars, esVars, chromaVars, otherVars>>

NextTest ==
    \/ TestSend
    \/ \E c \in Conns : OnData(c)
    \/ \E c \in Conns : OnEnd(c)
    \/ TestReceive
    \/ BackendChange

SpecTest == InitTest /\ [][NextTest]_vars

----------------------------------------------------------------------------
(* The Elasticsearch tools and the cluster behind esClient.  A document is  *)
(* modelled by the one token that tells it apart; the cluster stores at     *)
(* most one document per index and id, and a search sees the documents as   *)
(* of the last refresh.                                                     *)

Indices == {"products", "customers"}
DocIds == {"doc1"}
Tokens == {"alpha", "beta"}

\* the ids the cluster generates for documents indexed without one
AutoIds == <<"auto1", "auto2", "auto3", "auto4">>

\* params.arguments of elasticsearch_index_document: { index, document, id? };
\* the second index only ever gets the document alpha under the id doc1,
\* which is enough to have one id in two indices
IndexArguments ==
    {a \in [index : Indices, id : DocIds \cup {Undefined}, document : Tokens,
            query : {Undefined}] :
       a.index = "customers" => a.id = "doc1" /\ a.document = "alpha"}

\* params.arguments of elasticsearch_search: { index, query }
SearchArguments ==
    {a \in [index : Indices, id : {Undefined}, document : {Undefined}, query : Tokens] :
       a.index = "customers" => a.query = "alpha"}

\* the index case passing no id to the client
IndexOperationNoId(arguments) ==
    [index |-> arguments.index, id |-> Undefined, document |-> arguments.document]

\* the index case: esClient.index({ index, id: docId, document })
IndexOperation(arguments) ==
    [index |-> arguments.index, id |-> arguments.id, document |-> arguments.document]

\* the search case: esClient.search({ index, query: { multi_match: { query, fields: ['*'] } }, size })
SearchOperation(arguments) == [index |-> arguments.index, query |-> arguments.query]

\* the index API of the cluster: a document indexed under an id replaces the
\* one stored under that id; without an id the cluster generates a new one
EsIndex(store, op) ==
    LET id == IF op.id = Undefined THEN AutoIds[store.auto + 1] ELSE op.id
        old == {d \in store.docs : d.index = op.index /\ d.id = id}
    IN  [store |-> [store EXCEPT
                      !.docs = (@ \ old) \cup {[index |-> op.index, id |-> id,
                                                 document |-> op.document]},
                      !.auto = IF op.id = Undefined THEN @ + 1 ELSE @],
         response |-> [result |-> IF old = {} THEN "created" ELSE "updated",
                       id |-> id, index |-> op.index, rows |-> {}]]

\* the search API of the cluster: the searchable documents of the index
\* that contain the query token
EsSearch(store, op) ==
    {d \in store.visible : d.index = op.index /\ d.document = op.query}

\* a row built from the index name of the hit instead of its id
SearchRowsIndexAsId(hits) == {[id |-> hit.index, source |-> hit.document] : hit \in hits}

\* esResult.hits.hits.map(hit => ({ id: hit._id, score: hit._score, source: hit._source }))
SearchRows(hits) == {[id |-> hit.id, source |-> hit.document] : hit \in hits}

NoResponse == [result |-> "", id |-> Undefined, index |-> Undefined, rows |-> {}]

\* an invocation of a tool: awaiting esClient, done or failed; refreshed
\* tells that the index was refreshed after the call's document was stored,
\* saw which index calls were stored and refreshed when a search ran
ToolCall(name, arguments) ==
    [name |-> name, arguments |-> arguments, phase |-> "pending",
     response |-> NoResponse, refreshed |-> FALSE, saw |-> {}]

\* the index calls that are stored and were refreshed since
Refreshed(log) ==
    {i \in DOMAIN log : log[i].name = "elasticsearch_index_document" /\ log[i].refreshed}

InitIndex ==
    /\ server = "es"
    /\ alive = TRUE
    /\ backendUp \in BOOLEAN
    /\ conns = [c \in {1} |-> IdleConn]
    /\ firstList = NoList
    /\ received = <<>>
    /\ calls = <<>>
    /\ stdout = <<>>
    /\ SdkUnused
    /\ Started
    /\ test = NotRun
    /\ es = EsEmpty
    /\ toolCalls = <<>>
    /\ ChromaUnused
    /\ OthersUnused

\* tools/call of elasticsearch_index_document: the handler awaits esClient.index
IndexCall ==
    /\ alive /\ Len(toolCalls) < MaxToolCalls
    /\ \E arguments \in IndexArguments :
         toolCalls' = Append(toolCalls, ToolCall("elasticsearch_index_document", arguments))
    /\ UNCHANGED <<server, alive, backendUp, conns, firstList, received, calls, stdout,
                   sdkVars, startVars, test, es, chromaVars, otherVars>>

\* tools/call of elasticsearch_search: the handler awaits esClient.search
SearchCall ==
    /\ alive /\ Len(toolCalls) < MaxToolCalls
    /\ \E arguments \in SearchArguments :
         toolCalls' = Append(toolCalls, ToolCall("elasticsearch_search", arguments))
    /\ UNCHANGED <<server, alive, backendUp, conns, firstList, received, calls, stdout,
                   sdkVars, startVars, test, es, chromaVars, otherVars>>

\* the cluster executes the operation a handler awaits, and the handler
\* builds its answer; an unreachable cluster rejects the operation
EsSettled(i) ==
    /\ alive /\ i \in DOMAIN toolCalls /\ toolCalls[i].phase = "pending"
    /\ IF ~backendUp
       THEN /\ toolCalls' = [toolCalls EXCEPT ![i].phase = "failed"]
            /\ es' = es
       ELSE IF toolCalls[i].name = "elasticsearch_index_document"
       THEN LET done == EsIndex(es, IndexOperation(toolCalls[i].arguments))
            IN  /\ es' = done.store
                /\ toolCalls' = [toolCalls EXCEPT ![i].phase = "done",
                                                  ![i].response = done.response]
       ELSE /\ es' = es
            /\ toolCalls' = [toolCalls EXCEPT
                 ![i].phase = "done",
                 ![i].saw = Refreshed(toolCalls),
                 ![i].response = [NoResponse EXCEPT !.rows =
                     SearchRows(EsSearch(es, SearchOperation(toolCalls[i].arguments)))]]
    /\ UNCHANGED <<server, alive, backendUp, conns, firstList, received, calls, stdout,
                   sdkVars, startVars, test, chromaVars, otherVars>>

\* client.indices.refresh({ index }) of the setup script, or the periodic
\* refresh of the cluster: what is stored becomes searchable
EsRefresh ==
    /\ alive /\ backendUp
    /\ es' = [es EXCEPT !.visible = es.docs]
    /\ toolCalls' = [i \in DOMAIN toolCalls |->
                       IF toolCalls[i].name = "elasticsearch_index_document"
                            /\ toolCalls[i].phase = "done"
                       THEN [toolCalls[i] EXCEPT !.refreshed = TRUE]
                       ELSE toolCalls[i]]
    /\ <<es', toolCalls'>> # <<es, toolCalls>>
    /\ UNCHANGED <<server, alive, backendUp, conns, firstList, received, calls, stdout,
                   sdkVars, startVars, test, chromaVars, otherVars>>

NextIndex ==
    \/ IndexCall
    \/ SearchCall
    \/ \E i \in 1..MaxToolCalls : EsSettled(i)
    \/ EsRefresh
    \/ BackendChange

SpecIndex == InitIndex /\ [][NextIndex]_vars

----------------------------------------------------------------------------
(* chroma_query_collection and the ChromaDB collection behind chromaClient. *)
(* A document of the collection is its id and its distance to the query     *)
(* text; the backend answers a query with the nearest documents, closest    *)
(* first.                                                                   *)

ProductIds == {"p1", "p2", "p3"}
Distances == 1..MaxDistance

\* the collections: at most one document per id
Collections ==
    {c \in SUBSET [id : ProductIds, distance : Distances] :
       \A d, e \in c : d.id = e.id => d = e}

\* const { collection = 'products', query, n_results = 5 } = params.arguments
DefaultNResults == 5
NResults(arguments) == IF "n_results" \in arguments.keys THEN arguments.n_results
                       ELSE DefaultNResults

\* params.arguments: { query, n_results: 1 }, { query, n_results: 2 }, { query }
QueryArguments ==
    {[keys |-> {"query", "n_results"}, n_results |-> n] : n \in {1, 2}}
      \cup {[keys |-> {"query"}, n_results |-> 0]}

Min(a, b) == IF a <= b THEN a ELSE b

\* coll.query({ queryTexts: [query], nResults }): the answers the backend may
\* give, each the nResults nearest documents (all of them when there are
\* fewer) ordered by ascending distance, as parallel arrays ids[0], distances[0]
ChromaQuery(coll, nResults) ==
    LET k == Min(nResults, Cardinality(coll))
        nearest == {seq \in [1..k -> coll] :
                      /\ \A i, j \in 1..k : i < j =>
                           seq[i] # seq[j] /\ seq[i].distance <= seq[j].distance
                      /\ \A d \in coll \ Range(seq) :
                           \A i \in 1..k : seq[i].distance <= d.distance}
    IN  {[ids |-> [i \in 1..k |-> seq[i].id],
          distances |-> [i \in 1..k |-> seq[i].distance]] : seq \in nearest}

NoResults == [ids |-> <<>>, distances |-> <<>>]

\* the rows built in the reverse of the backend's order
formattedResultsReversed(results) ==
    [i \in DOMAIN results.ids |->
       [keys |-> {"id", "distance", "metadata", "document"},
        id |-> results.ids[Len(results.ids) + 1 - i],
        distance |-> results.distances[Len(results.ids) + 1 - i]]]

\* results.ids[0].map((id, i) => ({ id, distance: results.distances?.[0][i],
\*                                  metadata: ..., document: ... }))
formattedResults(results) ==
    [i \in DOMAIN results.ids |->
       [keys |-> {"id", "distance", "metadata", "document"},
        id |-> results.ids[i],
        distance |-> results.distances[i]]]

\* an invocation of chroma_query_collection: awaiting getCollection, awaiting
\* query, done or failed
Query(arguments) ==
    [arguments |-> arguments, phase |-> "getCollection", results |-> NoResults, rows |-> <<>>]

InitQuery ==
    /\ server = "chroma"
    /\ alive = TRUE
    /\ backendUp \in BOOLEAN
    /\ conns = [c \in {1} |-> IdleConn]
    /\ firstList = NoList
    /\ received = <<>>
    /\ calls = <<>>
    /\ stdout = <<>>
    /\ SdkUnused
    /\ Started
    /\ test = NotRun
    /\ EsUnused
    /\ collection \in Collections
    /\ queries = <<>>
    /\ OthersUnused

\* tools/call of chroma_query_collection: the handler awaits getCollection
QueryCall ==
    /\ alive /\ Len(queries) < MaxQueries
    /\ \E arguments \in QueryArguments : queries' = Append(queries, Query(arguments))
    /\ UNCHANGED <<server, alive, backendUp, conns, firstList, received, calls, stdout,
                   sdkVars, startVars, test, esVars, collection, otherVars>>

\* chromaClient.getCollection settles; the handler goes on to coll.query
GetCollectionSettled(i) ==
    /\ alive /\ i \in DOMAIN queries /\ queries[i].phase = "getCollection"
    /\ queries' = [queries EXCEPT ![i].phase = IF backendUp THEN "query" ELSE "failed"]
    /\ UNCHANGED <<server, alive, backendUp, conns, firstList, received, calls, stdout,
                   sdkVars, startVars, test, esVars, collection, otherVars>>

\* coll.query settles and the handler builds its rows; the backend may
\* refuse a query for more results than the collection has documents
QuerySettled(i) ==
    /\ alive /\ i \in DOMAIN queries /\ queries[i].phase = "query"
    /\ \/ /\ ~backendUp \/ NResults(queries[i].arguments) > Cardinality(collection)
          /\ queries' = [queries EXCEPT ![i].phase = "failed"]
       \/ /\ backendUp
          /\ \E results \in ChromaQuery(collection, NResults(queries[i].arguments)) :
               queries' = [queries EXCEPT ![i].phase = "done",
                                          ![i].results = results,
                                          ![i].rows = formattedResults(results)]
    /\ UNCHANGED <<server, alive, backendUp, conns, firstList, received, calls, stdout,
                   sdkVars, startVars, test, esVars, collection, otherVars>>

NextQuery ==
    \/ QueryCall
    \/ \E i \in 1..MaxQueries : GetCollectionSettled(i)
    \/ \E i \in 1..MaxQueries : QuerySettled(i)
    \/ BackendChange

SpecQuery == InitQuery /\ [][NextQuery]_vars

----------------------------------------------------------------------------
(* The example driver scripts: main() of each, one process per run.

   case1          src/test/rag/case1-direct-rag-example.ts
   case2          src/test/rag/case2: agent-rag-example.ts
   case3          src/test/rag/case3: agent-mcp-example.ts
   case3_http     src/test/rag/case3-agent-mcp-example.ts (first program)
   case3_interop  src/test/rag/case3-agent-mcp-example.ts (second program)
   chroma_http    src/unnamed/part_000 (first program)
   chroma_stdio   src/unnamed/part_000 (second program)

   process.exit(code) ends the process at the call: nothing after it runs,
   a finally block included. *)

MaxHits == 2       \* hits an Elasticsearch search of a driver returns: 0..MaxHits
MaxToolRuns == 2   \* search_products invocations during one agent.invoke

Drivers ==
    {"case1", "case2", "case3", "case3_http", "case3_interop", "chroma_http", "chroma_stdio"}

\* the drivers whose try has a finally block that closes the client
HasFinally(script) == script \in {"case3_http", "case3_interop", "chroma_http", "chroma_stdio"}

\* the drivers whose finally wraps close() in its own try/catch
GuardsClose(script) == script \in {"case3_http", "case3_interop"}

\* the steps of the try block that can end it: the constructor and the
\* awaited operations, in program order
Steps(script) ==
    CASE script = "case1" -> <<"esClient.info", "esClient.search", "model.invoke">>
      [] script = "case2" -> <<"esClient.info", "agent.invoke">>
      [] script = "case3" ->
           <<"new MultiServerMCPClient", "initializeConnections", "getTools",
             "agent.invoke", "agent.invoke", "agent.invoke">>
      [] script \in {"case3_http", "case3_interop"} ->
           <<"new MultiServerMCPClient", "initializeConnections", "getTools", "agent.invoke">>
      [] script \in {"chroma_http", "chroma_stdio"} ->
           <<"new MultiServerMCPClient", "initializeConnections", "getTools",
             "agent.stream", "for await">>

NoProductsMessage ==
    "I couldn't find any products matching your query. Please try different keywords."

\* a driver at the first line of main
StartDriver(script) ==
    [NoDriver EXCEPT !.script = script, !.at = "try", !.step = 1]

\* process.exit(code)
Exit(d, code) == [d EXCEPT !.at = "exited", !.exited = TRUE, !.status = code]

\* the finally block up to its await or its process.exit(0)
Finally(d) ==
    IF d.client = "created"
    THEN [d EXCEPT !.at = "closing", !.closeCalls = @ + 1]
    ELSE Exit(d, 0)

\* a catch block whose process.exit(1) lets the finally block run
CatchBlockThenFinally(d, op) ==
    LET e == [d EXCEPT !.caught = TRUE, !.error = op, !.stderr = Append(@, "Error")]
    IN  IF HasFinally(d.script) THEN Finally(e) ELSE Exit(e, 1)

\* the catch block of main: console.error of the error, process.exit(1)
CatchBlock(d, op) ==
    Exit([d EXCEPT !.caught = TRUE, !.error = op, !.stderr = Append(@, "Error")], 1)

\* a step of the try block has settled
StepSettled(d, ok) ==
    LET op == Steps(d.script)[d.step]
        e == [d EXCEPT !.ops = Append(@, [step |-> d.step, op |-> op, ok |-> ok])]
    IN  IF ok THEN [e EXCEPT !.step = @ + 1] ELSE CatchBlock(e, op)

\* findProductsForUser calling the model whatever the search returned
AfterSearchAlwaysInvokes(d, hits) == StepSettled(d, TRUE)

\* findProductsForUser after esClient.search returned: the fixed message
\* for zero hits, else on to model.invoke
AfterSearch(d, hits) ==
    IF hits = 0
    THEN [StepSettled(d, TRUE) EXCEPT !.step = Len(Steps(d.script)) + 1,
                                 !.answer = NoProductsMessage]
    ELSE StepSettled(d, TRUE)

\* the search_products tool without its try/catch
searchProductsToolNoCatch(ok, hits) ==
    IF ~ok THEN [search |-> "rejected", returned |-> "none", threw |-> TRUE]
    ELSE IF hits = 0
    THEN [search |-> "resolved", returned |-> "No products found matching that query.",
          threw |-> FALSE]
    ELSE [search |-> "resolved", returned |-> "products", threw |-> FALSE]

\* one run of the search_products tool: what esClient.search did and
\* what the tool returned to the agent
searchProductsTool(ok, hits) ==
    IF ~ok
    THEN [search |-> "rejected", returned |-> "Error searching products:", threw |-> FALSE]
    ELSE IF hits = 0
    THEN [search |-> "resolved", returned |-> "No products found matching that query.",
          threw |-> FALSE]
    ELSE [search |-> "resolved", returned |-> "products", threw |-> FALSE]

InitDriver ==
    /\ server = "es"
    /\ alive = TRUE
    /\ backendUp \in BOOLEAN
    /\ conns = [c \in {1} |-> IdleConn]
    /\ firstList = NoList
    /\ received = <<>>
    /\ calls = <<>>
    /\ stdout = <<>>
    /\ SdkUnused
    /\ Started
    /\ test = NotRun
    /\ EsUnused
    /\ ChromaUnused
    /\ RouteUnused /\ SharedUnused /\ ConsoleUnused /\ SetupUnused
    /\ \E script \in Drivers : driver = StartDriver(script)

DriverUnchanged ==
    UNCHANGED <<server, alive, backendUp, conns, firstList, received, calls, stdout,
                sdkVars, startVars, test, esVars, chromaVars, routed,
                sharedVars, chromaScriptVars>>

\* new MultiServerMCPClient(...): the client exists from here on
NewClient ==
    /\ driver.at = "try" /\ driver.step <= Len(Steps(driver.script))
    /\ Steps(driver.script)[driver.step] = "new MultiServerMCPClient"
    /\ driver' = [StepSettled(driver, TRUE) EXCEPT !.client = "created"]
    /\ DriverUnchanged

\* the awaited operations that settle with nothing but success or failure
Awaited(op) ==
    /\ op \notin {"new MultiServerMCPClient", "esClient.search"}
    /\ ~(op = "agent.invoke" /\ driver.script = "case2")

\* an awaited operation of the try block settles; a rejection runs the catch
AwaitSettled ==
    /\ driver.at = "try" /\ driver.step <= Len(Steps(driver.script))
    /\ Awaited(Steps(driver.script)[driver.step])
    /\ \E ok \in BOOLEAN : driver' = StepSettled(driver, ok)
    /\ DriverUnchanged

\* case1: esClient.search of findProductsForUser settles
SearchSettled ==
    /\ driver.at = "try" /\ driver.step <= Len(Steps(driver.script))
    /\ Steps(driver.script)[driver.step] = "esClient.search"
    /\ \/ /\ ~backendUp
          /\ driver' = StepSettled(driver, FALSE)
       \/ /\ backendUp
          /\ \E hits \in 0..MaxHits :
               driver' = [AfterSearch(driver, hits) EXCEPT !.hits = hits]
    /\ DriverUnchanged

\* case2: one turn of the agent inside agent.invoke: the model call fails,
\* or asks for search_products, or gives the final answer
AgentTurn ==
    /\ driver.at = "try" /\ driver.step <= Len(Steps(driver.script))
    /\ driver.script = "case2" /\ Steps(driver.script)[driver.step] = "agent.invoke"
    /\ \/ driver' = StepSettled(driver, FALSE)
       \/ driver' = StepSettled(driver, TRUE)
       \/ /\ Len(driver.toolRuns) < MaxToolRuns
          /\ \E hits \in 0..MaxHits :
               LET run == searchProductsTool(backendUp, hits)
                   d == [driver EXCEPT !.toolRuns = Append(@, run)]
               IN  driver' = IF run.threw
                             THEN CatchBlock(
                                    [d EXCEPT !.ops = Append(@, [step |-> d.step,
                                                                 op |-> "esClient.search",
                                                                 ok |-> FALSE])],
                                    "esClient.search")
                             ELSE d
    /\ DriverUnchanged

\* the try block ran to its end: main returns, or runs its finally block
TryDone ==
    /\ driver.at = "try" /\ driver.step = Len(Steps(driver.script)) + 1
    /\ driver' = IF HasFinally(driver.script) THEN Finally(driver) ELSE Exit(driver, 0)
    /\ DriverUnchanged

\* await mcpClient.close() settles: process.exit(0), unless the rejection
\* leaves main through an unguarded finally (unhandled rejection: status 1)
CloseSettled ==
    /\ driver.at = "closing"
    /\ \E ok \in BOOLEAN :
         driver' = IF ok \/ GuardsClose(driver.script)
                   THEN Exit(driver, 0)
                   ELSE [Exit(driver, 1) EXCEPT !.unhandled = TRUE]
    /\ DriverUnchanged

NextDriver ==
    \/ NewClient
    \/ AwaitSettled
    \/ SearchSettled
    \/ AgentTurn
    \/ TryDone
    \/ CloseSettled
    \/ BackendChange

SpecDriver == InitDriver /\ [][NextDriver]_vars

----------------------------------------------------------------------------
(* Routing of the hand-rolled HTTP servers: the whole createServer callback,
   for requests of any method and url.  The POST /mcp branch is the exchange
   of connection slot 1 above; the other branches answer on their own. *)

MaxRouted == 2    \* HTTP requests received in the routing scenario

HttpMethods == {"OPTIONS", "GET", "POST"}
Urls == {"/health", "/mcp", "/health/"}

\* response headers: a function from header name to value
NoHeaders == [h \in {} |-> "none"]
JsonContentType == [h \in {"Content-Type"} |-> "application/json"]

\* res.writeHead(status, headers) on a response whose headers were set with
\* res.setHeader: the headers sent are both, writeHead's taking precedence
WriteHead(set, given) ==
    [h \in DOMAIN set \cup DOMAIN given |-> IF h \in DOMAIN given THEN given[h] ELSE set[h]]

\* the CORS headers set only for the OPTIONS preflight
SetCorsHeadersPreflightOnly(method) ==
    IF method = "OPTIONS"
    THEN [h \in {"Access-Control-Allow-Origin", "Access-Control-Allow-HttpMethods",
                 "Access-Control-Allow-Headers"} |->
            CASE h = "Access-Control-Allow-Origin" -> "*"
              [] h = "Access-Control-Allow-HttpMethods" -> "GET, POST, OPTIONS"
              [] h = "Access-Control-Allow-Headers" -> "Content-Type"]
    ELSE NoHeaders

\* the three res.setHeader calls at the top of the callback
SetCorsHeaders(method) ==
    [h \in {"Access-Control-Allow-Origin", "Access-Control-Allow-HttpMethods",
            "Access-Control-Allow-Headers"} |->
       CASE h = "Access-Control-Allow-Origin" -> "*"
         [] h = "Access-Control-Allow-HttpMethods" -> "GET, POST, OPTIONS"
         [] h = "Access-Control-Allow-Headers" -> "Content-Type"]

\* the /mcp test without the test of the method
UrlBranchAnyMethodToMcp(method, url) ==
    IF method = "OPTIONS" THEN "options"
    ELSE IF method = "GET" /\ url = "/health" THEN "health"
    ELSE IF url = "/mcp" THEN "mcp"
    ELSE "notfound"

\* the if chain of the callback: the branch that takes the request
UrlBranch(method, url) ==
    IF method = "OPTIONS" THEN "options"
    ELSE IF method = "GET" /\ url = "/health" THEN "health"
    ELSE IF method = "POST" /\ url = "/mcp" THEN "mcp"
    ELSE "notfound"

EmptyBody == [keys |-> {}]
NotFoundBody == [keys |-> {"error"}, error |-> "Not found"]

\* a response as sent: status, merged headers, body
Sent(set, given, response) ==
    [status |-> response.status, headers |-> WriteHead(set, given), body |-> response.body]

\* what a branch writes before its first await
RouteWrites(s, branch, set) ==
    CASE branch = "options" -> <<Sent(set, NoHeaders, HttpResponse(200, EmptyBody))>>
      [] branch = "notfound" -> <<Sent(set, JsonContentType, HttpResponse(404, NotFoundBody))>>
      [] branch = "health" ->
           IF ProbesBackend(s) THEN <<>>
           ELSE <<Sent(set, JsonContentType, HealthOk(s))>>
      [] branch = "mcp" -> <<>>

Routed(s, method, url) ==
    LET set == SetCorsHeaders(method)
        branch == UrlBranch(method, url)
    IN  [method |-> method, url |-> url, set |-> set, branch |-> branch,
         res |-> RouteWrites(s, branch, set)]

\* the requests posted to /mcp in the routing scenario
RouteRequests(s) ==
    ConcurrentRequests(s, 1)
      \cup {[NoRequest EXCEPT !.json = "object", !.method = "notifications/initialized"]}

InitRoute ==
    /\ server \in HttpServers
    /\ alive = TRUE
    /\ backendUp \in BOOLEAN
    /\ conns = [c \in {1} |-> IdleConn]
    /\ firstList = NoList
    /\ received = <<>>
    /\ calls = <<>>
    /\ stdout = <<>>
    /\ SdkUnused
    /\ Started
    /\ test = NotRun
    /\ EsUnused
    /\ ChromaUnused
    /\ ScriptsUnused /\ SharedUnused /\ ConsoleUnused /\ SetupUnused
    /\ routed = <<>>

\* a request arrives and the callback runs up to its first await or return
RouteRequest ==
    /\ alive /\ Len(routed) < MaxRouted
    /\ \E method \in HttpMethods, url \in Urls :
         LET x == Routed(server, method, url)
         IN  /\ routed' = Append(routed, x)
             /\ IF x.branch = "mcp"
                THEN /\ \A j \in DOMAIN routed : routed[j].branch # "mcp"
                     /\ Post(1, RouteRequests(server))
                ELSE UNCHANGED conns
    /\ UNCHANGED <<server, alive, backendUp, firstList, received, calls, stdout,
                   sdkVars, startVars, test, esVars, chromaVars, driver,
                   sharedVars, chromaScriptVars>>

\* the probe awaited by the /health branch settles and the branch answers
RouteHealthSettled(i) ==
    /\ alive /\ i \in DOMAIN routed
    /\ routed[i].branch = "health" /\ routed[i].res = <<>>
    /\ routed' = [routed EXCEPT ![i].res =
                    <<Sent(routed[i].set, JsonContentType,
                           IF backendUp THEN HealthOk(server) ELSE HealthDisconnected(server))>>]
    /\ UNCHANGED <<server, alive, backendUp, conns, firstList, received, calls, stdout,
                   sdkVars, startVars, test, esVars, chromaVars, driver,
                   sharedVars, chromaScriptVars>>

NextRoute ==
    \/ RouteRequest
    \/ \E i \in 1..MaxRouted : RouteHealthSettled(i)
    \/ OnData(1)
    \/ OnEnd(1)
    \/ OnBackendSettled(1)
    \/ BackendChange

SpecRoute == InitRoute /\ [][NextRoute]_vars

----------------------------------------------------------------------------
(* The SDK-based Elasticsearch HTTP server with a transport per request
   (src/unnamed/part_005, first program): app.post('/mcp') creates a
   StreamableHTTPServerTransport, connects the one module-level McpServer to
   it, closes the transport when the response closes, and hands the request
   to the transport.

   The McpServer holds one transport at a time.  What connect() does on a
   server that still holds a transport is the SDK's and differs between the
   releases the dependency range "^1.20.1" admits: the server is rebound to
   the new transport, or connect() rejects.  The release is chosen in Init. *)

MaxPosts == 3    \* requests posted to the server with per-request transports

SdkBuilds == {"rebinds", "throws"}

PostKinds == {"tools/list", "tools/call"}

\* a POST /mcp exchange: its own transport is the one numbered like it
NoPost ==
    [kind |-> "none", phase |-> "none", overlapped |-> FALSE,
     sentVia |-> 0, closed |-> FALSE, closedBy |-> 0]

\* the exchanges whose handler is suspended at its Elasticsearch call
InFlight(log) == {i \in DOMAIN log : log[i].phase = "handling"}

\* await mcp.connect(transport) for the transport of exchange i: TRUE when
\* it resolves
Connects(server_, i) ==
    server_.transport = 0 \/ server_.build = "rebinds"

\* the callback of app.post('/mcp') up to the first await that depends on
\* the backend
PostCallback(server_, log, kind) ==
    LET i == Len(log) + 1
        overlapped == InFlight(log) # {}
    IN  IF ~Connects(server_, i)
        THEN [NoPost EXCEPT !.kind = kind, !.phase = "failed", !.overlapped = overlapped]
        ELSE IF kind = "tools/list"
        THEN [NoPost EXCEPT !.kind = kind, !.phase = "answered", !.overlapped = overlapped,
                            !.sentVia = i]
        ELSE [NoPost EXCEPT !.kind = kind, !.phase = "handling", !.overlapped = overlapped]

InitShared ==
    /\ server = SdkHttpServer
    /\ alive = TRUE
    /\ backendUp \in BOOLEAN
    /\ conns = [c \in {1} |-> IdleConn]
    /\ firstList = NoList
    /\ received = <<>>
    /\ calls = <<>>
    /\ stdout = <<>>
    /\ SdkUnused
    /\ Started
    /\ test = NotRun
    /\ EsUnused
    /\ ChromaUnused
    /\ ScriptsUnused /\ RouteUnused /\ ConsoleUnused /\ SetupUnused
    /\ \E build \in SdkBuilds : mcp = [NewMcp EXCEPT !.build = build]
    /\ posts = <<>>

SharedUnchanged ==
    UNCHANGED <<server, alive, backendUp, conns, firstList, received, calls, stdout,
                sdkVars, startVars, test, esVars, chromaVars, driver, routed,
                chromaScriptVars>>

\* a client posts a request: transport created, server connected to it,
\* 'close' listener registered, request handed to the transport
PostMcp ==
    /\ Len(posts) < MaxPosts
    /\ \E kind \in PostKinds :
         LET i == Len(posts) + 1
             post == PostCallback(mcp, posts, kind)
         IN  /\ posts' = Append(posts, post)
             /\ mcp' = IF post.phase = "failed" THEN mcp ELSE [mcp EXCEPT !.transport = i]
    /\ SharedUnchanged

\* the Elasticsearch call of a tool handler settles and the response (result
\* or isError result) is sent through the transport the request came in on
ToolSettled(i) ==
    /\ i \in InFlight(posts)
    /\ posts' = [posts EXCEPT ![i].phase = "answered", ![i].sentVia = i]
    /\ UNCHANGED mcp
    /\ SharedUnchanged

\* res 'close' of an answered exchange: transport.close(), whose onclose
\* makes the server drop the transport it holds
ResClose(i) ==
    /\ i \in DOMAIN posts /\ posts[i].phase = "answered" /\ ~posts[i].closed
    /\ posts' = [posts EXCEPT ![i].closed = TRUE, ![i].closedBy = i]
    /\ mcp' = [mcp EXCEPT !.transport = 0]
    /\ SharedUnchanged

NextShared ==
    \/ PostMcp
    \/ \E i \in 1..MaxPosts : ToolSettled(i)
    \/ \E i \in 1..MaxPosts : ResClose(i)
    \/ BackendChange

SpecShared == InitShared /\ [][NextShared]_vars

----------------------------------------------------------------------------
(* The interactive ChromaDB console (src/src/chroma/chroma-mcp-http-server.ts,
   lines 318-546): main() prints the help and calls prompt(); the callback of
   rl.question awaits processCommand(input) and calls prompt() again.  The
   callback is async and nothing catches its rejection: a rejection of
   processCommand is an unhandled rejection, which ends the process. *)

MaxLines == 3    \* input lines typed into the console

\* the input lines, by what processCommand makes of them
Commands ==
    {"list", "peek", "peek products", "query", "query products laptop",
     "help", "", "frobnicate", "exit", "quit"}

\* the client operations a command awaits, in order
ConsoleOps(command) ==
    CASE command = "list" -> <<"listCollections", "getCollection", "count">>
      [] command = "peek products" -> <<"getCollection", "peek">>
      [] command = "query products laptop" -> <<"getCollection", "query">>
      [] OTHER -> <<>>

\* the awaits of a command that are inside a try/catch
Guarded(command, op) ==
    \/ command \in {"peek products", "query products laptop"}
    \/ command = "list" /\ op \in {"getCollection", "count"}

\* the console after main() printed the help and called prompt()
StartConsole ==
    [at |-> "prompt", lines |-> <<>>, prompts |-> 1, pending |-> <<>>,
     errors |-> 0, status |-> 0]

\* prompt(): rl.question('chroma> ', ...)
Prompt(k) == [k EXCEPT !.at = "prompt", !.prompts = @ + 1, !.pending = <<>>]

\* processCommand(input) from its first line to its first await, and the
\* call of prompt() that follows when it returns
processCommand(k, input) ==
    LET l == [k EXCEPT !.lines = Append(@, input)]
    IN  IF input \in {"exit", "quit"}
        THEN [l EXCEPT !.at = "exited", !.status = 0]
        ELSE IF ConsoleOps(input) = <<>>
        THEN Prompt(l)
        ELSE [l EXCEPT !.at = "awaiting", !.pending = ConsoleOps(input)]

\* the awaited client operation settles: the command goes on to its next
\* await, or ends (normally or in its catch) and prompt() is called, or its
\* rejection leaves processCommand and the callback
resumeCommand(k, ok) ==
    LET command == k.lines[Len(k.lines)]
        op == k.pending[1]
    IN  IF ok
        THEN IF Len(k.pending) > 1 THEN [k EXCEPT !.pending = Tail(@)] ELSE Prompt(k)
        ELSE IF Guarded(command, op)
        THEN Prompt([k EXCEPT !.errors = @ + 1])
        ELSE [k EXCEPT !.at = "crashed", !.pending = <<>>, !.status = 1]

InitConsole ==
    /\ server = "chroma"
    /\ alive = TRUE
    /\ backendUp \in BOOLEAN
    /\ conns = [c \in {1} |-> IdleConn]
    /\ firstList = NoList
    /\ received = <<>>
    /\ calls = <<>>
    /\ stdout = <<>>
    /\ SdkUnused
    /\ Started
    /\ test = NotRun
    /\ EsUnused
    /\ ChromaUnused
    /\ ScriptsUnused /\ RouteUnused /\ SharedUnused /\ SetupUnused
    /\ console = StartConsole

ConsoleUnchanged ==
    UNCHANGED <<server, alive, backendUp, conns, firstList, received, calls, stdout,
                sdkVars, startVars, test, esVars, chromaVars, driver, routed,
                sharedVars, setup>>

\* the user enters a line at the prompt
ConsoleLine ==
    /\ console.at = "prompt" /\ Len(console.lines) < MaxLines
    /\ \E input \in Commands : console' = processCommand(console, input)
    /\ ConsoleUnchanged

\* the client operation the command awaits settles
ConsoleSettled ==
    /\ console.at = "awaiting"
    /\ console' = resumeCommand(console, backendUp)
    /\ ConsoleUnchanged

NextConsole ==
    \/ ConsoleLine
    \/ ConsoleSettled
    \/ BackendChange

SpecConsole == InitConsole /\ [][NextConsole]_vars

----------------------------------------------------------------------------
(* The ChromaDB setup scripts (src/src/chroma/chroma-mcp-http-server.ts,
   lines 546-648 and 651-761): setupChromaData deletes the products
   collection, creates it, adds the products of products.json and runs a
   test query.  The store is ChromaDB's: deleteCollection rejects when the
   collection does not exist, createCollection rejects when it does, and add
   stores one document per id. *)

MaxRuns == 2    \* times the setup script is run, one after the other

SetupScripts == {"setup_path", "setup_host"}

\* the ids of products.json, and an id only an earlier load could have left
Products == {"p1", "p2"}
StaleIds == {"old"}

\* the products collection before the first run: absent, or holding any
\* documents
Absent == [exists |-> FALSE, ids |-> {}]
Stores == {Absent} \cup [exists : {TRUE}, ids : SUBSET (Products \cup StaleIds)]

\* the awaited operations of setupChromaData, in program order
SetupSteps(script) ==
    IF script = "setup_host"
    THEN <<"version", "deleteCollection", "createCollection", "add", "query">>
    ELSE <<"deleteCollection", "createCollection", "add", "query">>

\* whether the store accepts the operation, and the store after it
Accepts(store, op) ==
    CASE op = "deleteCollection" -> store.exists
      [] op = "createCollection" -> ~store.exists
      [] op \in {"add", "query"} -> store.exists
      [] OTHER -> TRUE

Apply(store, op) ==
    CASE op = "deleteCollection" -> Absent
      [] op = "createCollection" -> [exists |-> TRUE, ids |-> {}]
      [] op = "add" -> [store EXCEPT !.ids = @ \cup Products]
      [] OTHER -> store

\* a run at the first line of setupChromaData
StartSetup(script, store, history) ==
    [at |-> "try", script |-> script, step |-> 1, ops |-> <<>>, store |-> store,
     before |-> store, exited |-> FALSE, status |-> 0, history |-> history]

\* the inner catch of the delete step passing the error on
AfterDeleteRethrows(st, ok) ==
    IF ok THEN [st EXCEPT !.step = @ + 1]
    ELSE [st EXCEPT !.at = "exited", !.exited = TRUE, !.status = 1]

\* try { await client.deleteCollection(...) } catch (error) { }
AfterDelete(st, ok) == [st EXCEPT !.step = @ + 1]

\* an awaited operation settles: the next statement, the outer catch with
\* process.exit(1), or process.exit(0) after the test query
SetupSettled(st, ok) ==
    LET op == SetupSteps(st.script)[st.step]
        done == [st EXCEPT !.ops = Append(@, [op |-> op, ok |-> ok]),
                           !.store = IF ok THEN Apply(@, op) ELSE @]
    IN  IF op = "deleteCollection" THEN AfterDelete(done, ok)
        ELSE IF ~ok THEN [done EXCEPT !.at = "exited", !.exited = TRUE, !.status = 1]
        ELSE IF st.step = Len(SetupSteps(st.script))
        THEN [done EXCEPT !.at = "exited", !.exited = TRUE, !.status = 0]
        ELSE [done EXCEPT !.step = @ + 1]

InitSetup ==
    /\ server = "chroma"
    /\ alive = TRUE
    /\ backendUp \in BOOLEAN
    /\ conns = [c \in {1} |-> IdleConn]
    /\ firstList = NoList
    /\ received = <<>>
    /\ calls = <<>>
    /\ stdout = <<>>
    /\ SdkUnused
    /\ Started
    /\ test = NotRun
    /\ EsUnused
    /\ ChromaUnused
    /\ ScriptsUnused /\ RouteUnused /\ SharedUnused /\ ConsoleUnused
    /\ \E script \in SetupScripts, store \in Stores :
         setup = StartSetup(script, store, <<>>)

SetupUnchanged ==
    UNCHANGED <<server, alive, backendUp, conns, firstList, received, calls, stdout,
                sdkVars, startVars, test, esVars, chromaVars, driver, routed,
                sharedVars, console>>

\* the operation setupChromaData awaits settles: it resolves when ChromaDB
\* is reachable and accepts it
SetupStep ==
    /\ setup.at = "try"
    /\ LET op == SetupSteps(setup.script)[setup.step]
       IN  setup' = SetupSettled(setup, backendUp /\ Accepts(setup.store, op))
    /\ SetupUnchanged

\* the script is run again on the store the last run left
SetupAgain ==
    /\ setup.exited /\ Len(setup.history) + 1 < MaxRuns
    /\ setup' = [StartSetup(setup.script, setup.store,
                            Append(setup.history, setup.status))
                   EXCEPT !.before = setup.before]
    /\ SetupUnchanged

NextSetup ==
    \/ SetupStep
    \/ SetupAgain
    \/ BackendChange

SpecSetup == InitSetup /\ [][NextSetup]_vars

----------------------------------------------------------------------------
(* Properties *)

\* the connections whose exchange is complete
Answered == {c \in Conns : conns[c].phase = "done"}

IsCall(request) == request.json = "object" /\ request.method = "tools/call"

\* a complete exchange has exactly one response, with these properties
HasKey(c, key) == key \in conns[c].res[1].body.keys
ErrorCode(c) == conns[c].res[1].body.error.code
Once(c) == Len(conns[c].res) = 1

\* some backend operation of the exchange rejected
Rejected(log) == \E i \in DOMAIN log : log[i].settled = "rejected"

\* a tools/call whose params.name is not an advertised tool
UnregisteredCall(request) ==
    /\ IsCall(request) /\ request.params.kind = "object"
    /\ request.params.name \notin Range(TOOLS(server))

\* C1: in the hand-rolled HTTP servers a tools/call whose params.name is not
\* a registered tool is answered, without any backend call, by exactly one
\* envelope with an error of code -32603 and no result key, and the process
\* stays alive to answer later requests.
C1_UnknownToolError ==
    /\ alive
    /\ \A c \in Conns :
         UnregisteredCall(conns[c].req) /\ conns[c].phase \notin {"idle", "body"} =>
           /\ c \in Answered /\ Once(c)
           /\ HasKey(c, "error") /\ ~HasKey(c, "result")
           /\ ErrorCode(c) = INTERNAL_ERROR
           /\ conns[c].backendCalls = <<>>

C1_Witness ==
    \E c \in Answered :
      /\ UnregisteredCall(conns[c].req) /\ conns[c].req.params.name = UnknownTool
      /\ HasKey(c, "error") /\ alive

\* a tools/call naming one of names with every required argument
WellFormedCall(request, names) ==
    /\ IsCall(request) /\ request.params.kind = "object"
    /\ request.params.name \in names
    /\ WellFormed(request.params.name, request.params.arguments)

TextResult(body) ==
    /\ "result" \in body.keys /\ "error" \notin body.keys
    /\ Len(body.result.content) >= 1
    /\ body.result.content[1].type = "text"

\* C2: a tools/call naming a registered tool with well-formed arguments whose
\* backend operations all resolve is answered with result.content[0].type =
\* "text" and no error key (HTTP servers and stdio servers).
C2_RegisteredToolResult ==
    /\ \A c \in Answered :
         WellFormedCall(conns[c].req, Range(TOOLS(server))) /\ ~Rejected(conns[c].backendCalls)
           => Once(c) /\ TextResult(conns[c].res[1].body)
    /\ \A i \in DOMAIN stdout :
         LET n == stdout[i].n
         IN  WellFormedCall(received[n], Range(ListToolsResult(server))) /\ ~Rejected(calls[n])
               => TextResult(stdout[i].body)

C2_Witness ==
    \E c \in Answered :
      /\ WellFormedCall(conns[c].req, Range(TOOLS(server)))
      /\ Len(conns[c].backendCalls) = 2 /\ ~Rejected(conns[c].backendCalls)
      /\ TextResult(conns[c].res[1].body)

\* a tools/call in whose handler an exception was raised
HandlerRaised(request, log, cases) ==
    /\ IsCall(request)
    /\ \/ request.params.kind # "object"
       \/ request.params.name \notin cases
       \/ request.params.arguments = Undefined
            /\ (ReadsArguments(request.params.name)
                  \/ StdioReadsArguments(request.params.name))
       \/ Rejected(log)

ErrorOnly(body) == "error" \in body.keys /\ "result" \notin body.keys

\* C3: an exception raised in a tool handler (unknown tool, missing params or
\* arguments, a rejected backend operation) becomes the error envelope of that
\* one call and never leaves the dispatcher uncaught: the process stays alive.
C3_HandlerExceptionsCaught ==
    /\ alive
    /\ \A c \in Answered :
         HandlerRaised(conns[c].req, conns[c].backendCalls, ToolCases(server))
           => Once(c) /\ ErrorOnly(conns[c].res[1].body) /\ ErrorCode(c) = INTERNAL_ERROR
    /\ \A i \in DOMAIN stdout :
         LET n == stdout[i].n
         IN  HandlerRaised(received[n], calls[n], StdioToolCases(server))
               => ErrorOnly(stdout[i].body)

C3_Witness ==
    /\ alive
    /\ \E c \in Answered :
         /\ IsCall(conns[c].req) /\ Rejected(conns[c].backendCalls)
         /\ ErrorOnly(conns[c].res[1].body)

ExactlyOne(body) == ("result" \in body.keys) # ("error" \in body.keys)

\* C4 as claimed: every body written for POST /mcp has exactly one of the
\* keys result and error, for every method including notifications/initialized.
C4_Original ==
    \A c \in Answered : \A i \in DOMAIN conns[c].res : ExactlyOne(conns[c].res[i].body)

IsNotification(request) ==
    request.json = "object" /\ request.method = "notifications/initialized"

\* C4 amended: every body written for POST /mcp has exactly one of the keys
\* result and error, except the acknowledgement of notifications/initialized,
\* which has neither.
C4_ExactlyOneExceptAck ==
    \A c \in Answered :
      /\ Once(c)
      /\ IF IsNotification(conns[c].req)
         THEN ~HasKey(c, "result") /\ ~HasKey(c, "error")
         ELSE ExactlyOne(conns[c].res[1].body)

C4_Witness ==
    \E c \in Answered :
      IsNotification(conns[c].req) /\ ~HasKey(c, "result") /\ ~HasKey(c, "error")

\* C5 as claimed: for every request that parses as JSON and carries an id, the
\* id of the response equals the id of the request, whatever the method and
\* the outcome, also for a tools/call without params.  (The acknowledgement
\* of notifications/initialized, which carries no id at all, is left aside.)
C5_ResponseIdMatches ==
    \A c \in Answered :
      conns[c].req.json = "object" /\ conns[c].req.id \in Ids /\ ~IsNotification(conns[c].req)
        => \A i \in DOMAIN conns[c].res :
             /\ "id" \in conns[c].res[i].body.keys
             /\ conns[c].res[i].body.id = conns[c].req.id

UnknownMethod(request) == request.json = "object" /\ request.method \notin KnownMethods

\* C6: a request with a method other than the four known ones is answered
\* with HTTP 200 and one error envelope of code -32601 carrying the request id;
\* no tool handler runs and no backend operation is called.
C6_MethodNotFound ==
    \A c \in Conns :
      UnknownMethod(conns[c].req) /\ conns[c].phase \notin {"idle", "body"} =>
        /\ c \in Answered /\ Once(c)
        /\ conns[c].res[1].status = 200
        /\ HasKey(c, "error") /\ ~HasKey(c, "result")
        /\ ErrorCode(c) = METHOD_NOT_FOUND
        /\ HasKey(c, "id") /\ conns[c].res[1].body.id = conns[c].req.id
        /\ conns[c].handlers = <<>> /\ conns[c].backendCalls = <<>>

C6_Witness ==
    \E c \in Answered :
      /\ UnknownMethod(conns[c].req) /\ conns[c].req.id = "id2"
      /\ ErrorCode(c) = METHOD_NOT_FOUND /\ conns[c].res[1].body.id = "id2"

\* C7: a body that is not valid JSON is answered with HTTP 500 and one error
\* envelope with code -32603 and id null; no handler runs and the process
\* stays alive.
C7_ParseError ==
    /\ alive
    /\ \A c \in Conns :
         conns[c].req.json = "invalid" /\ conns[c].phase \notin {"idle", "body"} =>
           /\ c \in Answered /\ Once(c)
           /\ conns[c].res[1].status = 500
           /\ HasKey(c, "error") /\ ~HasKey(c, "result")
           /\ ErrorCode(c) = INTERNAL_ERROR
           /\ HasKey(c, "id") /\ conns[c].res[1].body.id = Null
           /\ conns[c].handlers = <<>> /\ conns[c].backendCalls = <<>>

C7_Witness ==
    \E c \in Answered :
      conns[c].req.json = "invalid" /\ conns[c].res[1].status = 500 /\ alive

\* C8: notifications/initialized is acknowledged exactly once with HTTP 200
\* and a body that has no result and no id; no handler runs.
C8_NotificationAck ==
    \A c \in Conns :
      IsNotification(conns[c].req) /\ conns[c].phase \notin {"idle", "body"} =>
        /\ c \in Answered /\ Once(c)
        /\ conns[c].res[1].status = 200
        /\ conns[c].res[1].body.keys = {"jsonrpc"}
        /\ conns[c].handlers = <<>> /\ conns[c].backendCalls = <<>>

C8_Witness ==
    \E c \in Answered :
      /\ IsNotification(conns[c].req) /\ conns[c].req.id \in Ids
      /\ Once(c) /\ ~HasKey(c, "id")

Distinct(seq) == \A i, j \in DOMAIN seq : i # j => seq[i] # seq[j]

IsList(request) == request.json = "object" /\ request.method = "tools/list"

StableList(body) ==
    /\ "result" \in body.keys
    /\ Len(body.result.tools) > 0
    /\ Distinct(body.result.tools)
    /\ firstList.set /\ body.result.tools = firstList.tools

\* C9: the tool array answered by tools/list is non-empty, has pairwise
\* distinct names and equals the array of the first tools/list answer of the
\* process, whatever was processed in between (HTTP servers and stdio servers).
C9_ToolListStable ==
    /\ \A c \in Answered :
         IsList(conns[c].req) => Once(c) /\ StableList(conns[c].res[1].body)
    /\ \A i \in DOMAIN stdout :
         IsList(received[stdout[i].n]) => StableList(stdout[i].body)

C9_Witness ==
    \E i, j \in DOMAIN stdout :
      /\ i < j /\ IsList(received[stdout[i].n]) /\ IsList(received[stdout[j].n])
      /\ Len(stdout[j].body.result.tools) > 0
      /\ stdout[i].body.result.tools = stdout[j].body.result.tools

EsTools == {"elasticsearch_search", "elasticsearch_index_document",
            "elasticsearch_get_indices"}

Alone(s, request, log) ==
    LET run == EndCallback(s, <<Chunk(request, 1)>>)
    IN  IF ~run.suspended \/ log = <<>>
        THEN run.writes
        ELSE AfterToolsCall(resumeToolsCall(request.id, request.params, Len(log),
                                            log[Len(log)].settled = "resolved")).writes

\* C11: concurrent POST /mcp requests do not interfere: in every interleaving
\* of chunk arrival, suspension and completion, nothing is written for a
\* request before its handler completes, and a completed request has exactly
\* one response, which is the one the request gets when served alone (own
\* method, params and backend outcomes) and never carries another request's id.
C11_NoInterference ==
    \A c \in Conns :
      /\ conns[c].phase \in {"body", "await"} => conns[c].res = <<>>
      /\ c \in Answered =>
           /\ Once(c)
           /\ conns[c].res = Alone(server, conns[c].req, conns[c].backendCalls)
           /\ HasKey(c, "id") => conns[c].res[1].body.id \in {conns[c].req.id, Null}

C11_Witness ==
    /\ Answered = {1, 2}
    /\ conns[1].overlap /\ conns[2].overlap
    /\ IsCall(conns[1].req) /\ Len(conns[1].backendCalls) = 2 /\ TextResult(conns[1].res[1].body)
    /\ IsList(conns[2].req) /\ conns[2].req.id # conns[1].req.id
    /\ conns[2].res[1].body.id = conns[2].req.id

\* the exchanges of the SDK-based server that were answered
SdkAnswered == {i \in DOMAIN exchanges : exchanges[i].res.status # 0}

IsToolRequest(request) == request.method \in {"tools/list", "tools/call"}

\* C12 as claimed: the servers keep no session: a tools/list or tools/call
\* request is answered with its result whether or not an initialize request
\* was sent before it, and two such requests that differ only in what was
\* sent before them get the same response.
C12_NoSession ==
    /\ \A i \in SdkAnswered :
         IsToolRequest(exchanges[i].req) =>
           exchanges[i].res.status = 200 /\ "result" \in exchanges[i].res.body.keys
    /\ \A i, j \in SdkAnswered :
         /\ IsToolRequest(exchanges[i].req)
         /\ [exchanges[i].req EXCEPT !.id = Undefined] = [exchanges[j].req EXCEPT !.id = Undefined]
         /\ exchanges[i].session = exchanges[j].session
         /\ exchanges[i].settled = exchanges[j].settled
         => /\ exchanges[i].res.status = exchanges[j].res.status
            /\ exchanges[i].res.body.keys = exchanges[j].res.body.keys

\* a failed startup probe leaves the server running and accepting requests,
\* and a completed well-formed tools/call has an error envelope when one of
\* its backend operations rejected and a text result otherwise
StartsRegardless ==
    /\ alive
    /\ probe = "failed" => main = "listening"
    /\ \A c \in Answered :
         WellFormedCall(conns[c].req, Range(TOOLS(server))) =>
           /\ Once(c)
           /\ IF Rejected(conns[c].backendCalls) THEN ErrorOnly(conns[c].res[1].body)
              ELSE TextResult(conns[c].res[1].body)
    /\ \A i \in DOMAIN stdout :
         LET n == stdout[i].n
         IN  WellFormedCall(received[n], Range(ListToolsResult(server))) =>
               IF Rejected(calls[n]) THEN ErrorOnly(stdout[i].body)
               ELSE TextResult(stdout[i].body)

\* when the backend operation of a well-formed tools/call settles, the call
\* ends with an error envelope if the backend is unreachable at that moment,
\* and goes on to its next operation or to its text result if it is reachable
CallsFollowBackend ==
    /\ \A c \in Conns :
         /\ conns[c].phase = "await"
         /\ conns'[c].backendCalls # conns[c].backendCalls
         /\ WellFormedCall(conns[c].req, Range(TOOLS(server)))
         => IF backendUp
            THEN conns'[c].phase = "await" \/ TextResult(conns'[c].res[1].body)
            ELSE conns'[c].phase = "done" /\ ErrorOnly(conns'[c].res[1].body)
    /\ \A n \in DOMAIN calls :
         /\ Pending(n) /\ calls'[n] # calls[n]
         /\ WellFormedCall(received[n], Range(ListToolsResult(server)))
         => LET line == stdout'[Len(stdout')]
            IN  /\ line.n = n
                /\ IF backendUp THEN TextResult(line.body) ELSE ErrorOnly(line.body)

C14_HealthAnswered ==
    /\ alive
    /\ \A i \in DOMAIN health :
         IF health[i].awaiting THEN health[i].res = <<>>
         ELSE /\ Len(health[i].res) = 1
              /\ LET res == health[i].res[1]
                 IN  IF health[i].settled = "rejected"
                     THEN res.status = 503 /\ res.body.status = "error"
                     ELSE /\ res.status = 200
                          /\ res.body.status = "ok" /\ res.body.mcp_server = "running"
                          /\ {"status", "mcp_server"} \subseteq res.body.keys
    /\ \A c \in Answered :
         conns[c].res = Alone(server, conns[c].req, conns[c].backendCalls)

C14_Witness ==
    /\ alive /\ Len(health) = 2
    /\ health[1].settled = "rejected" /\ health[1].res[1].status = 503
    /\ health[2].settled = "resolved" /\ health[2].res[1].status = 200
    /\ \E c \in Answered : IsCall(conns[c].req) /\ TextResult(conns[c].res[1].body)

\* C15 as claimed: when the test client has the answer to its tools/call of
\* an unknown tool, sendRequest has thrown: the test printed "Error handled
\* correctly" and never "Should have thrown an error".
C15_UnknownToolThrows ==
    test.pc = 5 =>
      /\ "Error handled correctly" \in Range(test.printed)
      /\ "Should have thrown an error" \notin Range(test.printed)

\* the index calls that completed
Indexed == {i \in DOMAIN toolCalls :
              toolCalls[i].name = "elasticsearch_index_document" /\ toolCalls[i].phase = "done"}

\* the documents stored in an index under an id
Stored(index, id) == {d \in es.docs : d.index = index /\ d.id = id}

\* C16: after two completed elasticsearch_index_document calls with the same
\* index and the same explicit id, in either completion order, exactly one
\* document with that id is in the index; two completed calls without an id
\* have created two distinct documents.
C16_IndexIdempotentWithId ==
    \A i, j \in Indexed :
      i # j /\ toolCalls[i].arguments.index = toolCalls[j].arguments.index =>
        LET a == toolCalls[i].arguments
            b == toolCalls[j].arguments
        IN  /\ a.id # Undefined /\ a.id = b.id => Cardinality(Stored(a.index, a.id)) = 1
            /\ a.id = Undefined /\ b.id = Undefined =>
                 /\ toolCalls[i].response.id # toolCalls[j].response.id
                 /\ Cardinality(Stored(a.index, toolCalls[i].response.id)
                                  \cup Stored(a.index, toolCalls[j].response.id)) = 2

C16_Witness ==
    /\ {1, 2} \subseteq Indexed
    /\ toolCalls[1].arguments = toolCalls[2].arguments
    /\ toolCalls[1].arguments.id = "doc1"
    /\ toolCalls[1].response.result = "updated" /\ toolCalls[2].response.result = "created"
    /\ Cardinality(Stored(toolCalls[1].arguments.index, "doc1")) = 1

\* the index call i stored, under an explicit id, a document with the token
\* the search j asks for, in the index it searches, and no other call puts
\* another document under that id
RoundTrip(i, j) ==
    /\ toolCalls[i].arguments.id # Undefined
    /\ toolCalls[i].arguments.index = toolCalls[j].arguments.index
    /\ toolCalls[i].arguments.document = toolCalls[j].arguments.query
    /\ \A k \in DOMAIN toolCalls :
         /\ toolCalls[k].name = "elasticsearch_index_document"
         /\ toolCalls[k].arguments.index = toolCalls[i].arguments.index
         /\ toolCalls[k].arguments.id = toolCalls[i].arguments.id
         => toolCalls[k].arguments.document = toolCalls[i].arguments.document

\* C17: a search that runs after a document was indexed with an explicit id
\* and the index was refreshed, and that asks for the token of that document,
\* returns a row whose id is the id supplied to the index call.
C17_RoundTrip ==
    \A j \in DOMAIN toolCalls :
      toolCalls[j].name = "elasticsearch_search" /\ toolCalls[j].phase = "done" =>
        \A i \in toolCalls[j].saw :
          RoundTrip(i, j) =>
            \E row \in toolCalls[j].response.rows : row.id = toolCalls[i].arguments.id

C17_Witness ==
    \E i, j \in DOMAIN toolCalls :
      /\ toolCalls[j].name = "elasticsearch_search" /\ toolCalls[j].phase = "done"
      /\ i \in toolCalls[j].saw /\ RoundTrip(i, j)
      /\ toolCalls[j].response.rows = {[id |-> "doc1", source |-> toolCalls[j].arguments.query]}

\* C18: a completed chroma_query_collection returns one row per id the
\* backend returned, in the backend's order, each with a distance field;
\* with n_results = 2 on a collection of at least 2 documents these are
\* exactly 2 rows, sorted by ascending distance.
C18_QueryRows ==
    \A q \in DOMAIN queries :
      queries[q].phase = "done" =>
        LET rows == queries[q].rows
            results == queries[q].results
        IN  /\ Len(rows) = Len(results.ids)
            /\ \A i \in DOMAIN rows :
                 /\ rows[i].id = results.ids[i]
                 /\ "distance" \in rows[i].keys
                 /\ rows[i].distance = results.distances[i]
            /\ NResults(queries[q].arguments) = 2 /\ Cardinality(collection) >= 2 =>
                 Len(rows) = 2 /\ rows[1].distance <= rows[2].distance

C18_Witness ==
    \E q \in DOMAIN queries :
      /\ queries[q].phase = "done" /\ NResults(queries[q].arguments) = 2
      /\ Cardinality(collection) = 3
      /\ Len(queries[q].rows) = 2
      /\ queries[q].rows[1].distance < queries[q].rows[2].distance

\* a tools/call that reaches a case of the switch
RegisteredCall(request) ==
    IsCall(request) /\ request.params.kind = "object"
      /\ request.params.name \in Range(TOOLS(server))

\* C19 as claimed: a completed tools/call of a registered tool that has an
\* external client has performed exactly one operation on it.
C19_Original ==
    \A c \in Answered :
      /\ RegisteredCall(conns[c].req)
      /\ BackendOps(conns[c].req.params.name) # <<>>
      /\ conns[c].req.params.arguments # Undefined
      => Len(conns[c].backendCalls) = 1

\* the number of client operations each tool performs when all of them succeed
OperationsOf(name) ==
    IF name \in {"chroma_query_collection", "chroma_get_collection_info"} THEN 2
    ELSE IF name = "get_weather" THEN 0
    ELSE 1

\* C19 amended: a tools/call performs the client operations of its tool in
\* order, each at most once and none repeated: one for the Elasticsearch
\* tools and chroma_list_collections, two (getCollection, then query or
\* count) for chroma_query_collection and chroma_get_collection_info, none
\* for get_weather; it stops at the first operation that fails, and a call
\* that completes without a failure has performed all of them.
C19_FixedOperations ==
    \A c \in Conns :
      LET log == conns[c].backendCalls
      IN  IF RegisteredCall(conns[c].req)
          THEN /\ Len(log) <= OperationsOf(conns[c].req.params.name)
               /\ \A i, j \in DOMAIN log : i # j => log[i].op # log[j].op
               /\ \A i \in DOMAIN log : log[i].settled # "resolved" => i = Len(log)
               /\ c \in Answered /\ ~HasKey(c, "error") =>
                    Len(log) = OperationsOf(conns[c].req.params.name)
          ELSE log = <<>>

C19_Witness ==
    \E c \in Answered :
      /\ conns[c].req.params.name = "chroma_query_collection"
      /\ Len(conns[c].backendCalls) = 2
      /\ conns[c].backendCalls[1] = [op |-> "getCollection", settled |-> "resolved"]
      /\ conns[c].backendCalls[2] = [op |-> "query", settled |-> "rejected"]
      /\ ErrorOnly(conns[c].res[1].body)

\* a tools/call of a registered tool whose arguments object lacks a
\* required parameter
LacksRequired(request) ==
    /\ RegisteredCall(request)
    /\ request.params.arguments = "empty"
    /\ ~WellFormed(request.params.name, request.params.arguments)

C21_CatchExitsOne ==
    /\ driver.caught =>
         /\ driver.exited /\ driver.status = 1
         /\ driver.stderr = <<"Error">>
         /\ driver.ops # <<>> /\ ~driver.ops[Len(driver.ops)].ok
    /\ \A i, j \in DOMAIN driver.ops :
         /\ i < j => driver.ops[i].step < driver.ops[j].step
         /\ ~driver.ops[i].ok => i = Len(driver.ops)

C21_Witness ==
    /\ HasFinally(driver.script) /\ driver.client = "created"
    /\ driver.caught /\ driver.exited /\ driver.status = 1
    /\ driver.error = "agent.invoke"

\* C27: in the drivers with a finally block, close() has been called when
\* the process has exited on a path on which the client was created.
C27_ClosedBeforeExit ==
    HasFinally(driver.script) /\ driver.exited /\ driver.client = "created"
      => driver.closeCalls >= 1

\* C28: in the direct RAG example the model is invoked at most once, and only
\* after the search has returned at least one hit; a search with zero hits
\* gives the fixed message and no model call.
C28_ModelAfterSearch ==
    driver.script = "case1" =>
      LET InvokeAt == {i \in DOMAIN driver.ops : driver.ops[i].op = "model.invoke"}
          Returned == {i \in DOMAIN driver.ops :
                         driver.ops[i].op = "esClient.search" /\ driver.ops[i].ok}
      IN  /\ Cardinality(InvokeAt) <= 1
          /\ \A i \in InvokeAt :
               /\ \E j \in Returned : j < i
               /\ driver.hits > 0
          /\ Returned # {} /\ driver.hits = 0 =>
               /\ InvokeAt = {}
               /\ driver.answer = NoProductsMessage
               /\ driver.step = Len(Steps("case1")) + 1
          /\ driver.answer = NoProductsMessage => Returned # {} /\ driver.hits = 0

C28_Witness ==
    /\ driver.script = "case1" /\ driver.exited /\ driver.status = 0
    /\ driver.answer = NoProductsMessage /\ driver.hits = 0
    /\ \A i \in DOMAIN driver.ops : driver.ops[i].op # "model.invoke"

\* C29: a failed Elasticsearch search inside search_products is returned to
\* the agent as a string starting with "Error searching products:" and is
\* not thrown, so the catch block of main never runs because of it.
C29_ToolNeverThrows ==
    driver.script = "case2" =>
      /\ \A i \in DOMAIN driver.toolRuns :
           /\ ~driver.toolRuns[i].threw
           /\ driver.toolRuns[i].search = "rejected" =>
                driver.toolRuns[i].returned = "Error searching products:"
      /\ driver.caught => driver.error \in {"esClient.info", "agent.invoke"}

C29_Witness ==
    /\ driver.script = "case2" /\ driver.exited /\ driver.status = 0
    /\ \E i \in DOMAIN driver.toolRuns : driver.toolRuns[i].search = "rejected"

\* the responses sent for the i-th routed request: those of its branch, or
\* those the POST /mcp callbacks wrote on its connection
Answers(i) ==
    IF routed[i].branch = "mcp"
    THEN [k \in DOMAIN conns[1].res |->
            Sent(routed[i].set, JsonContentType, conns[1].res[k])]
    ELSE routed[i].res

\* C22: every response a hand-rolled HTTP server sends carries
\* Access-Control-Allow-Origin: *, on every route and for every outcome.
C22_CorsOnEveryResponse ==
    \A i \in DOMAIN routed : \A k \in DOMAIN Answers(i) :
      /\ "Access-Control-Allow-Origin" \in DOMAIN Answers(i)[k].headers
      /\ Answers(i)[k].headers["Access-Control-Allow-Origin"] = "*"

C22_Witness ==
    /\ Len(routed) = 2
    /\ \E i \in DOMAIN routed : routed[i].branch = "mcp" /\ Len(Answers(i)) = 1
                                  /\ Answers(i)[1].status = 500
    /\ \E i \in DOMAIN routed : routed[i].branch = "notfound" /\ Len(Answers(i)) = 1

\* C25: routing is total and exclusive: OPTIONS on any url is answered 200
\* with an empty body; GET /health gets the health answer; POST /mcp gets the
\* JSON-RPC dispatch; every other method/url gets 404 {"error":"Not found"};
\* no request is answered twice and only POST /mcp runs the dispatch.
C25_RoutingTotalExclusive ==
    \A i \in DOMAIN routed :
      LET x == routed[i]
          answers == Answers(i)
      IN  /\ Len(answers) <= 1
          /\ CASE x.method = "OPTIONS" ->
                    /\ Len(answers) = 1
                    /\ answers[1].status = 200 /\ answers[1].body = EmptyBody
               [] x.method = "GET" /\ x.url = "/health" ->
                    /\ x.branch = "health"
                    /\ answers # <<>> =>
                         /\ answers[1].status \in {200, 503}
                         /\ "status" \in answers[1].body.keys
               [] x.method = "POST" /\ x.url = "/mcp" ->
                    /\ x.branch = "mcp"
                    /\ conns[1].phase # "idle"
                    /\ answers # <<>> => answers[1].status \in {200, 500}
               [] OTHER ->
                    /\ Len(answers) = 1
                    /\ answers[1].status = 404 /\ answers[1].body = NotFoundBody
          /\ x.branch # "mcp" /\ (\A j \in DOMAIN routed : routed[j].branch # "mcp") =>
               conns[1] = IdleConn

C25_Witness ==
    /\ Len(routed) = 2
    /\ routed[1].method = "GET" /\ routed[1].url = "/mcp"
    /\ Answers(1)[1].status = 404
    /\ routed[2].method = "POST" /\ routed[2].url = "/mcp"
    /\ Len(Answers(2)) = 1 /\ Answers(2)[1].status = 200

\* C23: with a transport per POST /mcp and one shared McpServer, a request
\* that arrives while another is in flight does not fail, every response is
\* sent through the transport of its own exchange, and a transport is closed
\* only by the close of its own response.
C23_OverlappingRequests ==
    \A i \in DOMAIN posts :
      /\ posts[i].phase # "failed"
      /\ posts[i].phase = "answered" => posts[i].sentVia = i
      /\ posts[i].closed => posts[i].closedBy = i /\ posts[i].phase = "answered"

\* the tool names tools/list answers with
Advertised(s) == Range(IF s \in HttpServers THEN TOOLS(s) ELSE ListToolsResult(s))

\* the answer is the "Unknown tool" error
UnknownToolError(body) ==
    "error" \in body.keys /\ body.error.message = "Unknown tool"

\* C24: in each server the names tools/list advertises are the names
\* tools/call dispatches: a call of an advertised name is never answered
\* with the "Unknown tool" error, and a call of any other name always is.
C24_AdvertisedIsDispatched ==
    /\ \A c \in Answered :
         IsCall(conns[c].req) /\ conns[c].req.params.kind = "object" =>
           (UnknownToolError(conns[c].res[1].body)
              <=> conns[c].req.params.name \notin Advertised(server))
    /\ \A k \in DOMAIN stdout :
         IsCall(received[stdout[k].n]) =>
           (UnknownToolError(stdout[k].body)
              <=> received[stdout[k].n].params.name \notin Advertised(server))

C24_Witness ==
    /\ server = "es_stdio" /\ Len(stdout) = 2
    /\ \E k \in DOMAIN stdout :
         /\ received[stdout[k].n].params.name = UnknownTool
         /\ UnknownToolError(stdout[k].body)
    /\ \E k \in DOMAIN stdout :
         /\ IsCall(received[stdout[k].n])
         /\ received[stdout[k].n].params.name = "elasticsearch_get_indices"
         /\ "result" \in stdout[k].body.keys

\* C26: the console processes one command at a time, and once the processing
\* of an input line other than exit/quit has ended, the next prompt has been
\* shown: there are as many prompts as lines plus one, whatever the command
\* and whether or not its backend call failed.
C26_PromptAfterEveryLine ==
    /\ console.at = "awaiting" => console.prompts = Len(console.lines)
    /\ console.at \notin {"awaiting", "off"} =>
         \A i \in DOMAIN console.lines :
           console.lines[i] \notin {"exit", "quit"} => console.prompts >= i + 1

\* C30: the setup deletes, then creates, then adds; a run that ends with
\* status 0 leaves exactly one document per product in the collection,
\* whatever it held before (so a second run leaves what the first left); a
\* failed delete is ignored, and a run ends with status 1 exactly when an
\* operation other than the delete failed.
C30_CleanSetup ==
    LET steps == SetupSteps(setup.script)
        Failed == {i \in DOMAIN setup.ops :
                     ~setup.ops[i].ok /\ setup.ops[i].op # "deleteCollection"}
    IN  setup.at # "off" =>
          /\ Len(setup.ops) <= Len(steps)
          /\ \A i \in DOMAIN setup.ops : setup.ops[i].op = steps[i]
          /\ setup.exited /\ setup.status = 0 =>
               /\ setup.store = [exists |-> TRUE, ids |-> Products]
               /\ Len(setup.ops) = Len(steps)
          /\ setup.exited => (setup.status = 1 <=> Failed # {})
          /\ ~setup.exited => Failed = {}

C30_Witness ==
    /\ "old" \in setup.before.ids
    /\ setup.history = <<0>> /\ setup.exited /\ setup.status = 0
    /\ setup.store = [exists |-> TRUE, ids |-> Products]

====
